---- MODULE Spec2Model ----
(***************************************************************************)
(* icon-normalizer: the batch pipeline of IconProcessor.processDirectory   *)
(* (scan, load/hash, duplicate detection, AI classification in slices,     *)
(* embedding, summary) and the reply parsers of the two providers.         *)
(***************************************************************************)
EXTENDS Integers, Sequences, FiniteSets, TLC

(***************************************************************************)
(* Bounds of the model.                                                    *)
(***************************************************************************)
\* files in the input directory of a whole run (specification Spec)
MaxFiles == 2
\* files in the input directory of a duplicate-detection run (SpecDedup)
MaxDedupFiles == 3
\* length of a hex digest (64 in the program: sha256)
HashLen == 10
\* largest window width config.ai.maxConcurrent of a run
MaxWidth == 2
\* pieces of text in a reply handed to a parser (SpecParser)
MaxChunks == 3
\* tags of a record handed to embedMetadata (SpecMetadata)
MaxTags == 2

(***************************************************************************)
(* Program constants.                                                      *)
(***************************************************************************)
\* generateIconId keeps the first 8 hex characters of each digest
IdPrefixLen == 8

(***************************************************************************)
(* Rationals n/d (d > 0) as pairs: similarity scores and thresholds.       *)
(***************************************************************************)
Rat(n, d) == <<n, d>>
RatGE(a, b) == a[1] * b[2] >= b[1] * a[2]
RatEQ(a, b) == a[1] * b[2] = b[1] * a[2]
RatLT(a, b) == a[1] * b[2] < b[1] * a[2]
RatOne == Rat(1, 1)

(***************************************************************************)
(* The input directory: file names, contents and their digests.            *)
(***************************************************************************)
Names == {"a.svg", "b.svg"}
Contents == {"c1", "c2", "c3", "c4"}

\* String.localeCompare on the file names of the model, as an order rank.
NameRank(n) == IF n = "a.svg" THEN 1 ELSE 2

\* sha256(content) as hex, HashLen characters long: c2 differs from c1 in one
\* position, c3 in two (one of them the position where c2 differs), c4 in all,
\* c5 in the last position only (beyond the prefix an id keeps).
HexDigest(content) ==
    [k \in 1..HashLen |->
        CASE content = "c1" -> "0"
          [] content = "c2" -> IF k = 1 THEN "1" ELSE "0"
          [] content = "c3" -> IF k <= 2 THEN "1" ELSE "0"
          [] content = "c5" -> IF k = HashLen THEN "1" ELSE "0"
          [] content = "c1+metadata" -> "d"
          [] content = "c2+metadata" -> "e"
          [] OTHER -> "f"]

\* sha256(filename) as hex.
NameDigest(filename) ==
    [k \in 1..HashLen |-> IF filename = "a.svg" THEN "a" ELSE "b"]

Substring(s, n) == SubSeq(s, 1, IF n < Len(s) THEN n ELSE Len(s))

\* CryptoUtils.generateIconId: `${nameHash[0..8]}-${contentHash[0..8]}`
generateIconId(filename, content) ==
    <<Substring(NameDigest(filename), IdPrefixLen),
      Substring(HexDigest(content), IdPrefixLen)>>

\* FileUtils.getFileHash
getFileHash(content) == HexDigest(content)

calculateSimilarityCount(hash1, hash2) ==
    LET distance == Cardinality({i \in 1..Len(hash1) :
                        i > Len(hash2) \/ hash1[i] # hash2[i]})
    IN  Rat(Len(hash1) - distance, 1)

\* CryptoUtils.calculateSimilarity: 1 - distance / hash1.length
calculateSimilarity(hash1, hash2) ==
    LET distance == Cardinality({i \in 1..Len(hash1) :
                        i > Len(hash2) \/ hash1[i] # hash2[i]})
    IN  Rat(Len(hash1) - distance, Len(hash1))

(***************************************************************************)
(* Options: IconProcessor and DuplicateDetector constructors.              *)
(***************************************************************************)
\* similarityThreshold: 0.8
DefaultThreshold == Rat(8, 10)

\* { key: default, ...given }: the given value when the key is present
Merge(given, key, default) == IF key \in DOMAIN given THEN given[key] ELSE default

\* IconProcessor.constructor: defaults overridden by the given options
ProcessorOptions(given) ==
    [outputDir |-> Merge(given, "outputDir", "./processed"),
     backup |-> Merge(given, "backup", TRUE),
     dryRun |-> Merge(given, "dryRun", FALSE),
     similarityThreshold |-> Merge(given, "similarityThreshold", DefaultThreshold),
     maxConcurrent |-> Merge(given, "maxConcurrent", 3),
     verbose |-> Merge(given, "verbose", FALSE)]

\* DuplicateDetector.constructor: { similarityThreshold: 0.8, ...options }
DetectorThreshold(opts) == Merge(opts, "similarityThreshold", DefaultThreshold)

(***************************************************************************)
(* DuplicateDetector: exact pass.                                          *)
(***************************************************************************)
\* generateRecommendation
generateRecommendation(similarity) ==
    IF RatEQ(similarity, RatOne) THEN "remove"
    ELSE IF RatGE(similarity, Rat(9, 10)) THEN "keep"
    ELSE "review"

RECURSIVE HashOrder(_)
\* keys of the hashGroups Map in insertion order (first occurrence of each hash)
HashOrder(icons) ==
    IF icons = <<>> THEN <<>>
    ELSE LET rest == HashOrder(SubSeq(icons, 1, Len(icons) - 1))
             h == icons[Len(icons)].hash
         IN  IF \E k \in 1..Len(rest) : rest[k] = h THEN rest ELSE Append(rest, h)

InsertByFilenameLast(sorted, x) == Append(sorted, x)

RECURSIVE InsertByFilename(_, _)
\* stable insertion of x into a list sorted by filename
InsertByFilename(sorted, x) ==
    IF sorted = <<>> THEN <<x>>
    ELSE IF NameRank(sorted[Len(sorted)].filename) <= NameRank(x.filename)
         THEN Append(sorted, x)
         ELSE Append(InsertByFilename(SubSeq(sorted, 1, Len(sorted) - 1), x),
                     sorted[Len(sorted)])

RECURSIVE SortByFilename(_)
\* Array.prototype.sort((a, b) => a.filename.localeCompare(b.filename)), stable
SortByFilename(list) ==
    IF list = <<>> THEN <<>>
    ELSE InsertByFilename(SortByFilename(SubSeq(list, 1, Len(list) - 1)),
                          list[Len(list)])

ExactGroupOf(duplicateIcons) ==
    LET sorted == SortByFilename(duplicateIcons)
    IN  [master |-> sorted[1],
         duplicates |-> SubSeq(sorted, 2, Len(sorted)),
         similarity |-> RatOne,
         recommendation |-> generateRecommendation(RatOne)]

RECURSIVE ExactGroupsFor(_, _)
ExactGroupsFor(icons, hashes) ==
    IF hashes = <<>> THEN <<>>
    ELSE LET duplicateIcons == SelectSeq(icons, LAMBDA ic : ic.hash = hashes[1])
             rest == ExactGroupsFor(icons, SubSeq(hashes, 2, Len(hashes)))
         IN  IF Len(duplicateIcons) > 1
             THEN <<ExactGroupOf(duplicateIcons)>> \o rest
             ELSE rest

findExactDuplicatesSplit(icons) ==
    ExactGroupsFor(icons, [k \in 1..Len(icons) |-> icons[k].hash])
findExactDuplicates(icons) == ExactGroupsFor(icons, HashOrder(icons))

(***************************************************************************)
(* IconProcessor.getUniqueIcons                                            *)
(***************************************************************************)
DuplicateIds(groups) ==
    UNION {{groups[g].duplicates[k].id : k \in 1..Len(groups[g].duplicates)} :
              g \in 1..Len(groups)}

getUniqueIcons(icons, groups) ==
    SelectSeq(icons, LAMBDA ic : ic.id \notin DuplicateIds(groups))

(***************************************************************************)
(* Replies of the backend.  A reply is a sequence of tokens, each standing *)
(* for a piece of text; pieces are separated by blanks:                    *)
(*   "{" "}"      braces            "nl"     a line break                  *)
(*   "fence"      a json code fence "prose"  okay                          *)
(*   "kwcat"      media             "kwicon" arrow                         *)
(*   "jcat"       "category":"navigation"                                  *)
(*   "jtags0"     "tags":[]         "jtags2" "tags":["back","left"]        *)
(*   "jtags6"     "tags":["t1","t2","t3","t4","t5","t6"]                   *)
(*   "jconf"      "confidence":0.9  "jconfhi" "confidence":1.5             *)
(*   "pcat"       category: action                                         *)
(*   "pconf09"    confidence: 0.9   "pconf85" confidence: 85               *)
(*   "pconfdot"   confidence: .                                            *)
(*   "ptags"      tags: back, left  "ptags6"  tags: t1, t2, t3, t4, t5, t6 *)
(***************************************************************************)
JsonMembers == {"jcat", "jtags0", "jtags2", "jtags6", "jconf", "jconfhi"}
Tokens == {"{", "}", "nl", "fence", "prose", "kwcat", "kwicon", "pcat",
           "pconf09", "pconf85", "pconfdot", "ptags", "ptags6"} \cup JsonMembers

\* NaN as the quotient 0/0: every comparison with it is false
NaN == <<0, 0>>

\* Object.keys(config.categories), in order (the keys the tokens can mention)
Taxonomy == <<"interface", "media", "action", "navigation">>

\* the taxonomy keys a token's text contains
TaxonomyWords(tok) ==
    CASE tok = "kwcat" -> {"media"}
      [] tok = "pcat" -> {"action"}
      [] tok = "jcat" -> {"navigation"}
      [] OTHER -> {}

\* iconKeywords, in order (those the tokens can mention)
IconKeywords == <<"icon", "button", "navigation", "arrow", "home">>

IconWords(tok) ==
    CASE tok = "jcat" -> {"navigation"}
      [] tok = "kwicon" -> {"arrow"}
      [] OTHER -> {}

\* text.split(/[,\s]+/).filter(tag => tag.trim() && tag.length > 1) of a token's text
SplitWords(tok) ==
    CASE tok \in {"{", "}", "nl"} -> <<>>
      [] tok = "fence" -> <<"fence-json">>
      [] tok = "prose" -> <<"okay">>
      [] tok = "kwcat" -> <<"media">>
      [] tok = "kwicon" -> <<"arrow">>
      [] tok = "jcat" -> <<"category-navigation">>
      [] tok = "jtags0" -> <<"tags-none">>
      [] tok = "jtags2" -> <<"tags-back", "left">>
      [] tok = "jtags6" -> <<"tags-t1", "t2", "t3", "t4", "t5", "t6">>
      [] tok = "jconf" -> <<"confidence-0.9">>
      [] tok = "jconfhi" -> <<"confidence-1.5">>
      [] tok = "pcat" -> <<"category:", "action">>
      [] tok = "pconf09" -> <<"confidence:", "0.9">>
      [] tok = "pconf85" -> <<"confidence:", "85">>
      [] tok = "pconfdot" -> <<"confidence:">>
      [] tok = "ptags" -> <<"tags:", "back", "left">>
      [] OTHER -> <<"tags:", "t1", "t2", "t3", "t4", "t5", "t6">>

\* the characters [0-9.]+ captures after "confidence:"
ConfidenceText(tok) ==
    CASE tok = "pconf09" -> <<"0", ".", "9">>
      [] tok = "pconf85" -> <<"8", "5">>
      [] OTHER -> <<".">>

DigitValue(c) ==
    CASE c = "0" -> 0 [] c = "1" -> 1 [] c = "2" -> 2 [] c = "3" -> 3 [] c = "4" -> 4
      [] c = "5" -> 5 [] c = "6" -> 6 [] c = "7" -> 7 [] c = "8" -> 8 [] OTHER -> 9

RECURSIVE DigitsPrefix(_)
\* length of the leading run of digits
DigitsPrefix(s) ==
    IF s = <<>> \/ s[1] = "." THEN 0 ELSE 1 + DigitsPrefix(Tail(s))

RECURSIVE DigitsValue(_)
DigitsValue(s) ==
    IF s = <<>> THEN 0 ELSE DigitsValue(SubSeq(s, 1, Len(s) - 1)) * 10 + DigitValue(s[Len(s)])

RECURSIVE Pow10(_)
Pow10(n) == IF n = 0 THEN 1 ELSE 10 * Pow10(n - 1)

\* parseFloat of a string of digits and dots: the longest prefix that is a
\* decimal literal, NaN when that prefix has no digit
parseFloat(s) ==
    LET n == DigitsPrefix(s)
        rest == SubSeq(s, n + 1, Len(s))
        m == IF rest # <<>> /\ rest[1] = "." THEN DigitsPrefix(Tail(rest)) ELSE 0
    IN  IF n + m = 0 THEN NaN
        ELSE Rat(DigitsValue(SubSeq(s, 1, n)) * Pow10(m) + DigitsValue(SubSeq(rest, 2, m + 1)),
                 Pow10(m))

\* Math.max(lo, Math.min(hi, x)): NaN stays NaN
Clamp(lo, hi, x) ==
    IF x = NaN THEN NaN
    ELSE IF RatLT(hi, x) THEN hi
    ELSE IF RatLT(x, lo) THEN lo
    ELSE x

Slice5(list) == SubSeq(list, 1, IF Len(list) < 5 THEN Len(list) ELSE 5)

RECURSIVE SplitLines(_)
\* content.split("\n")
SplitLines(content) ==
    IF \A k \in 1..Len(content) : content[k] # "nl" THEN <<content>>
    ELSE LET k == CHOOSE k \in 1..Len(content) :
                      content[k] = "nl" /\ \A j \in 1..(k - 1) : content[j] # "nl"
         IN  <<SubSeq(content, 1, k - 1)>> \o SplitLines(SubSeq(content, k + 1, Len(content)))

RECURSIVE ConcatWords(_)
ConcatWords(line) ==
    IF line = <<>> THEN <<>> ELSE SplitWords(line[1]) \o ConcatWords(Tail(line))

FirstIndex(line, S) ==
    IF \E k \in 1..Len(line) : line[k] \in S
    THEN CHOOSE k \in 1..Len(line) : line[k] \in S /\ \A j \in 1..(k - 1) : line[j] \notin S
    ELSE 0

\* line.match(/tags?\s*[:]\s*(.+)/i): the words of the rest of the line
LineTags(line) ==
    LET k == FirstIndex(line, {"ptags", "ptags6"})
    IN  IF k = 0 THEN <<>>
        ELSE Tail(SplitWords(line[k])) \o ConcatWords(SubSeq(line, k + 1, Len(line)))

RECURSIVE ScanLines(_, _)
\* the loop over the lines: [category, confidence, tags] after the last line
ScanLines(lines, acc) ==
    IF lines = <<>> THEN acc
    ELSE LET line == lines[1]
             c == FirstIndex(line, {"pcat"})
             f == FirstIndex(line, {"pconf09", "pconf85", "pconfdot"})
             parsed == IF f = 0 THEN NaN ELSE parseFloat(ConfidenceText(line[f]))
             conf == IF f = 0 THEN acc.confidence
                     ELSE IF parsed # NaN /\ RatLT(RatOne, parsed)
                          THEN Rat(parsed[1], parsed[2] * 100)
                          ELSE parsed
         IN  ScanLines(Tail(lines),
                       [category |-> IF c = 0 THEN acc.category ELSE "action",
                        confidence |-> conf,
                        tags |-> acc.tags \o LineTags(line)])

\* content.toLowerCase().includes(cat.toLowerCase())
MentionsCategory(content, cat) == \E k \in 1..Len(content) : cat \in TaxonomyWords(content[k])
\* content.toLowerCase().includes(keyword.toLowerCase())
MentionsKeyword(content, keyword) == \E k \in 1..Len(content) : keyword \in IconWords(content[k])

RECURSIVE FirstMentioned(_, _)
\* the first category of `list` the content mentions, "" when none
FirstMentioned(content, list) ==
    IF list = <<>> THEN ""
    ELSE IF MentionsCategory(content, list[1]) THEN list[1]
    ELSE FirstMentioned(content, Tail(list))

RECURSIVE KeywordTags(_, _, _)
\* for (const keyword of iconKeywords) ... if (tags.length >= 3) break
KeywordTags(content, list, tags) ==
    IF list = <<>> \/ Len(tags) >= 3 THEN tags
    ELSE KeywordTags(content, Tail(list),
                     IF MentionsKeyword(content, list[1]) THEN Append(tags, list[1]) ELSE tags)

GenericTags == <<"icon", "ui", "interface">>

\* OllamaAnalysisEngine.extractStructuredData
extractStructuredData(content) ==
    LET scanned == ScanLines(SplitLines(content),
                             [category |-> "interface", confidence |-> Rat(3, 10), tags |-> <<>>])
        hit == IF scanned.category = "interface"
               THEN FirstMentioned(content, Taxonomy)
               ELSE ""
        category == IF hit = "" THEN scanned.category ELSE hit
        confidence == IF hit = "" THEN scanned.confidence ELSE Rat(4, 10)
        tags1 == IF scanned.tags = <<>>
                 THEN KeywordTags(content, IconKeywords, <<>>)
                 ELSE scanned.tags
        tags == IF tags1 = <<>> THEN GenericTags ELSE tags1
    IN  [category |-> category,
         tags |-> Slice5(tags),
         confidence |-> Clamp(Rat(1, 10), RatOne, confidence),
         reasoning |-> "fallback"]

(***************************************************************************)
(* Structured parsing of a reply.                                          *)
(***************************************************************************)
Threw == [threw |-> TRUE]
IsThrew(r) == "threw" \in DOMAIN r

RECURSIVE SkipText(_, _)
\* [^{}]* from position p: the position of the next brace, Len(s) + 1 when none
SkipText(s, p) ==
    IF p > Len(s) \/ s[p] \in {"{", "}"} THEN p ELSE SkipText(s, p + 1)

RECURSIVE MatchRest(_, _)
\* after "{" and text: (?:\{[^{}]*\}[^{}]*)*\}  The end of the match, 0 when none
MatchRest(s, p) ==
    LET q == SkipText(s, p)
    IN  IF q > Len(s) THEN 0
        ELSE IF s[q] = "}" THEN q
        ELSE LET r == SkipText(s, q + 1)
             IN  IF r > Len(s) \/ s[r] = "{" THEN 0 ELSE MatchRest(s, r + 1)

\* /\{[^{}]*(?:\{[^{}]*\}[^{}]*)*\}/ anchored at position p
MatchAt(s, p) == IF s[p] = "{" THEN MatchRest(s, p + 1) ELSE 0

RECURSIVE LastMatch(_, _, _)
\* String.match with the g flag, from position p on: the last match as <<from, to>>
LastMatch(s, p, found) ==
    IF p > Len(s) THEN found
    ELSE LET e == MatchAt(s, p)
         IN  IF e = 0 THEN LastMatch(s, p + 1, found)
             ELSE LastMatch(s, e + 1, <<p, e>>)

LastIndexOf(s, tok) ==
    IF \E k \in 1..Len(s) : s[k] = tok
    THEN CHOOSE k \in 1..Len(s) : s[k] = tok /\ \A j \in (k + 1)..Len(s) : s[j] # tok
    ELSE 0

\* parseAIResponse, lines 254-273: fences removed, text before the first "{"
\* and after the last "}" removed
CleanContent(content) ==
    LET noFence == SelectSeq(content, LAMBDA t : t # "fence")
        start == FirstIndex(noFence, {"{"})
        fromStart == IF start > 1 THEN SubSeq(noFence, start, Len(noFence)) ELSE noFence
        end == LastIndexOf(fromStart, "}")
    IN  IF end # 0 /\ end < Len(fromStart) THEN SubSeq(fromStart, 1, end) ELSE fromStart

\* JSON.parse of "{" ... "}" returns (members and line breaks only) or throws
JsonParses(text) ==
    LET inner == SubSeq(text, 2, Len(text) - 1)
    IN  \A k \in 1..Len(inner) : inner[k] \in JsonMembers \cup {"nl"}

\* the value of a member of the parsed object: the last one of that key wins
LastOf(text, S) == LET k == LastIndexOf([j \in 1..Len(text) |->
                                            IF text[j] \in S THEN "hit" ELSE "no"], "hit")
                   IN  IF k = 0 THEN "absent" ELSE text[k]

JsonTags(member) ==
    CASE member = "jtags2" -> <<"back", "left">>
      [] member = "jtags6" -> <<"t1", "t2", "t3", "t4", "t5", "t6">>
      [] OTHER -> <<>>

JsonConfidence(member) == IF member = "jconfhi" THEN Rat(15, 10) ELSE Rat(9, 10)

\* OllamaAnalysisEngine.parseAIResponse
parseAIResponseOllama(content) ==
    LET cleaned == CleanContent(content)
        m == LastMatch(cleaned, 1, <<>>)
        text == SubSeq(cleaned, m[1], m[2])
        cat == LastOf(text, {"jcat"})
        tags == LastOf(text, {"jtags0", "jtags2", "jtags6"})
        conf == LastOf(text, {"jconf", "jconfhi"})
    IN  IF m = <<>> THEN extractStructuredData(content)
        ELSE IF ~JsonParses(text) THEN extractStructuredData(content)
        ELSE IF cat = "absent" /\ tags = "absent" THEN extractStructuredData(content)
        ELSE [category |-> IF cat = "absent" THEN "interface" ELSE "navigation",
              tags |-> Slice5(JsonTags(tags)),
              confidence |-> IF conf = "absent" THEN Rat(5, 10)
                             ELSE Clamp(Rat(0, 1), RatOne, JsonConfidence(conf)),
              reasoning |-> "parsed"]

\* AIAnalysisEngine.parseAIResponse: /\{[\s\S]*\}/, JSON.parse, throws otherwise
parseAIResponseOpenAI(content) ==
    LET start == FirstIndex(content, {"{"})
        end == LastIndexOf(content, "}")
        text == SubSeq(content, start, end)
        cat == LastOf(text, {"jcat"})
        tags == LastOf(text, {"jtags0", "jtags2", "jtags6"})
        conf == LastOf(text, {"jconf", "jconfhi"})
    IN  IF start = 0 \/ end < start THEN Threw
        ELSE IF ~JsonParses(text) THEN Threw
        ELSE [category |-> IF cat = "absent" THEN "uncategorized" ELSE "navigation",
              tags |-> JsonTags(tags),
              confidence |-> IF conf = "absent" THEN Rat(5, 10) ELSE JsonConfidence(conf),
              reasoning |-> "parsed"]

(***************************************************************************)
(* State.                                                                  *)
(***************************************************************************)
VARIABLES
    files,          \* the input directory: the .svg files scanDirectory finds, in scan order
    given,          \* the ProcessingOptions the caller passed to the constructor
    options,        \* IconProcessor.options (after the constructor's defaults)
    config,         \* the Config the engines read: ai.provider, ai.maxConcurrent
    phase,          \* position of processDirectory
    icons,          \* loadIcons' result
    exactGroups,    \* findExactDuplicates' result
    ni, nj,         \* findSimilarDuplicates: loop indices i and j (nj = 0: outside the inner loop)
    processed,      \* findSimilarDuplicates: the processed id set
    similarIcons,   \* findSimilarDuplicates: followers of the current leader
    nearGroups,     \* findSimilarDuplicates: groups
    duplicates,     \* findDuplicates' result
    uniqueIcons,    \* getUniqueIcons' result, the argument of batchAnalyze
    bi,             \* batchAnalyze: loop index i (1-based)
    calls,          \* batchAnalyze: the promises of the current slice
    results,        \* batchAnalyze: the results Map
    retryDelay,     \* OllamaAnalysisEngine.retryDelay, in quarters of a millisecond
    outFiles,       \* files written by the run
    summary,        \* the object saveJsonSummary writes
    result,         \* the ProcessingResult processDirectory returns
    cli,            \* the process command: what it printed and its exit status
    reply,          \* a reply handed to parseAIResponse
    parsed,         \* what parseAIResponse returned for it
    backend,        \* how the backend answers the calls of the batch
    svgText,        \* SVGUtils: the content given to embedMetadata, then its result
    metadata,       \* SVGUtils: the record given to embedMetadata
    extracted,      \* SVGUtils: what extractMetadata returned
    first,          \* the files, ids and groups of an earlier run on the directory
    late            \* ids of the items for which a reply arrived after its timeout

envVars == <<files, given, options, config, first, late>>
dedupVars == <<icons, exactGroups, ni, nj, processed, similarIcons, nearGroups, duplicates>>
batchVars == <<uniqueIcons, bi, calls, results, retryDelay, backend>>
outVars == <<outFiles, summary, result, cli>>
parserVars == <<reply, parsed>>
metaVars == <<svgText, metadata, extracted>>
vars == <<envVars, phase, dedupVars, batchVars, outVars, parserVars, metaVars>>

None == [none |-> TRUE]
IsNone(x) == "none" \in DOMAIN x

SeqsUpTo(S, n) == UNION {[1..k -> S] : k \in 0..n}

\* IconProcessor.loadIcons: one IconInfo per readable file, in scan order
RECURSIVE loadIcons(_, _)
loadIcons(fs, k) ==
    IF k = 0 THEN <<>>
    ELSE LET before == loadIcons(fs, k - 1)
             f == fs[k]
         IN  IF f.readable
             THEN Append(before,
                         [id |-> generateIconId(f.filename, f.content),
                          filename |-> f.filename,
                          path |-> k,
                          content |-> f.content,
                          hash |-> getFileHash(f.content)])
             ELSE before

(***************************************************************************)
(* DuplicateDetector.findDuplicates, step by step.                         *)
(***************************************************************************)
\* findDuplicates, lines 15-20: the exact pass; `processed` starts empty
FindExact ==
    /\ phase = "loaded"
    /\ exactGroups' = findExactDuplicates(icons)
    /\ processed' = {}
    /\ nearGroups' = <<>>
    /\ similarIcons' = <<>>
    /\ ni' = 1
    /\ nj' = 0
    /\ phase' = "near"
    /\ UNCHANGED <<envVars, icons, duplicates, batchVars, outVars, parserVars, metaVars>>

NearOuterNoSkip ==
    /\ phase = "near"
    /\ nj = 0
    /\ ni <= Len(icons)
    /\ similarIcons' = <<>>
    /\ nj' = ni + 1
    /\ UNCHANGED <<envVars, phase, icons, exactGroups, ni, processed, nearGroups, duplicates,
                   batchVars, outVars, parserVars, metaVars>>

\* findSimilarDuplicates, lines 67-74: next leader candidate
NearOuter ==
    /\ phase = "near"
    /\ nj = 0
    /\ ni <= Len(icons)
    /\ IF icons[ni].id \in processed
       THEN /\ ni' = ni + 1
            /\ UNCHANGED <<nj, similarIcons>>
       ELSE /\ similarIcons' = <<>>
            /\ nj' = ni + 1
            /\ UNCHANGED ni
    /\ UNCHANGED <<envVars, phase, icons, exactGroups, processed, nearGroups, duplicates,
                   batchVars, outVars, parserVars, metaVars>>

\* similarity >= this.options.similarityThreshold
AttachesStrict(icon1, icon2, opts) ==
    ~RatGE(DetectorThreshold(opts), calculateSimilarity(icon1.hash, icon2.hash))
Attaches(icon1, icon2, opts) ==
    RatGE(calculateSimilarity(icon1.hash, icon2.hash), DetectorThreshold(opts))

\* findSimilarDuplicates, lines 76-94: one iteration of the inner loop
NearInner ==
    /\ phase = "near"
    /\ nj > 0
    /\ nj <= Len(icons)
    /\ LET icon1 == icons[ni]
           icon2 == icons[nj]
       IN  IF icon2.id \in processed \/ icon1.hash = icon2.hash
           THEN UNCHANGED <<similarIcons, processed>>
           ELSE IF Attaches(icon1, icon2, options)
                THEN /\ similarIcons' = Append(similarIcons, icon2)
                     /\ processed' = processed \cup {icon2.id}
                ELSE UNCHANGED <<similarIcons, processed>>
    /\ nj' = nj + 1
    /\ UNCHANGED <<envVars, phase, icons, exactGroups, ni, nearGroups, duplicates,
                   batchVars, outVars, parserVars, metaVars>>

RatFirst(list) == list[1]

RECURSIVE RatMin(_)
\* Math.min(...similarities) over a non-empty list
RatMin(list) ==
    IF Len(list) = 1 THEN list[1]
    ELSE LET m == RatMin(SubSeq(list, 2, Len(list)))
         IN  IF RatLT(list[1], m) THEN list[1] ELSE m

\* findSimilarDuplicates, lines 96-113: close the leader's group
NearClose ==
    /\ phase = "near"
    /\ nj > Len(icons)
    /\ IF Len(similarIcons) > 0
       THEN LET master == icons[ni]
                similarities == [k \in 1..Len(similarIcons) |->
                                    calculateSimilarity(master.hash, similarIcons[k].hash)]
                minSimilarity == RatMin(similarities)
            IN  /\ nearGroups' = Append(nearGroups,
                        [master |-> master,
                         duplicates |-> similarIcons,
                         similarity |-> minSimilarity,
                         recommendation |-> generateRecommendation(minSimilarity)])
                /\ processed' = processed \cup {master.id}
       ELSE UNCHANGED <<nearGroups, processed>>
    /\ ni' = ni + 1
    /\ nj' = 0
    /\ UNCHANGED <<envVars, phase, icons, exactGroups, similarIcons, duplicates,
                   batchVars, outVars, parserVars, metaVars>>

\* findDuplicates, lines 24-26: groups = exact groups, then similar groups
NearReturn ==
    /\ phase = "near"
    /\ nj = 0
    /\ ni > Len(icons)
    /\ duplicates' = exactGroups \o nearGroups
    /\ phase' = "deduped"
    /\ UNCHANGED <<envVars, icons, exactGroups, ni, nj, processed, similarIcons, nearGroups,
                   batchVars, outVars, parserVars, metaVars>>

\* errors analyzeIcon retries: the timer of Promise.race wins, the connection
\* is closed, the reply has no content ("No response from Ollama")
RetriedErrors == {"timeout", "eof", "empty"}
\* errors analyzeIcon rethrows at once: ECONNREFUSED, model not found
FatalErrorsRefused == {"refused"}
FatalErrors == {"refused", "notfound"}

\* how the backend answers the calls of a batch: "any" leaves every outcome
\* open for every call, another mode is the one way every call of the batch
\* fails (the request times out, the connection is refused, the model is
\* not found, the reply has no content)
BackendModes == {"any", "timeout", "refused", "notfound", "empty"}
BackendErrors(mode) == IF mode = "any" THEN RetriedErrors \cup FatalErrors ELSE {mode}

\* processDirectory, lines 98-101: getUniqueIcons, then batchAnalyze is entered
StartBatch ==
    /\ phase = "deduped"
    /\ uniqueIcons' = getUniqueIcons(icons, duplicates)
    /\ results' = <<>>
    /\ bi' = 1
    /\ calls' = <<>>
    /\ backend' \in BackendModes
    /\ phase' = "classifying"
    /\ UNCHANGED <<envVars, dedupVars, retryDelay, outVars, parserVars, metaVars>>

\* loadIcons (line 92)
LoadIcons ==
    /\ phase = "scanned"
    /\ icons' = loadIcons(files, Len(files))
    /\ phase' = "loaded"
    /\ UNCHANGED <<envVars, exactGroups, ni, nj, processed, similarIcons, nearGroups,
                   duplicates, batchVars, outVars, parserVars, metaVars>>

(***************************************************************************)
(* processDirectory before loadIcons.                                      *)
(***************************************************************************)
FailedResultKeepsCounts(message) ==
    [totalIcons |-> Len(files), processedIcons |-> 0, duplicates |-> <<>>,
     errors |-> <<"Processing failed", message>>]
\* the catch block of processDirectory (lines 151-160)
FailedResult(message) ==
    [totalIcons |-> 0, processedIcons |-> 0, duplicates |-> <<>>,
     errors |-> <<"Processing failed", message>>]

\* lines 73-82
NoWorkResult ==
    [totalIcons |-> 0, processedIcons |-> 0, duplicates |-> <<>>,
     errors |-> <<"No SVG files found">>]

\* AIEngineFactory.checkService: what the check of the provider can find.
\* ollama: the service answers and has the model ("ok"), does not answer
\* ("down"), lacks the model ("nomodel"); openai: the key is set or not;
\* any other provider name: the default branch ("unsupported")
ServiceStates(cfg) ==
    IF cfg.provider = "ollama" THEN {"ok", "down", "nomodel"}
    ELSE IF cfg.provider = "openai" THEN (IF cfg.apiKey THEN {"ok"} ELSE {"nokey"})
    ELSE {"unsupported"}

\* lines 48-55: AIEngineFactory.checkService reports the service available or not
CheckService ==
    /\ phase = "start"
    /\ \E status \in ServiceStates(config) :
          IF status = "ok"
          THEN /\ phase' = "checked"
               /\ UNCHANGED result
          ELSE /\ phase' = "failed"
               /\ result' = FailedResult(status)
    /\ UNCHANGED <<envVars, dedupVars, batchVars, outFiles, summary, cli, parserVars, metaVars>>

ScanAlways ==
    /\ phase = "checked"
    /\ phase' = "found"
    /\ UNCHANGED <<envVars, dedupVars, batchVars, outVars, parserVars, metaVars>>

\* lines 57-82: scanDirectory; no file is a result without work
Scan ==
    /\ phase = "checked"
    /\ IF Len(files) = 0
       THEN /\ phase' = "done"
            /\ result' = NoWorkResult
       ELSE /\ phase' = "found"
            /\ UNCHANGED result
    /\ UNCHANGED <<envVars, dedupVars, batchVars, outFiles, summary, cli, parserVars, metaVars>>

\* a model identifier is a text in pieces: names, and the separators ":" "/" "-"
DefaultModel == <<"minicpm-v", ":", "latest">>

\* this.config.ai.model.replace(/[/:]/g, "-")
modelName(model) ==
    [k \in 1..Len(model) |-> IF model[k] \in {"/", ":"} THEN "-" ELSE model[k]]

\* the directory of each kind of file the run writes, as path components
\* (each a text in pieces): backup copies under <inputDir>/backup/<time>,
\* PNGs under <outputDir>/png, everything else under <outputDir>/<modelName>
DirOf(area) ==
    CASE area = "backup" -> <<<<"inputDir">>, <<"backup">>, <<"time">>>>
      [] area = "png" -> <<<<options.outputDir>>, <<"png">>>>
      [] area \in {"icons", "duplicates"} ->
             <<<<options.outputDir>>, modelName(config.model), <<area>>>>
      [] OTHER -> <<<<options.outputDir>>, modelName(config.model)>>

BlankFile(area, name, content) ==
    [area |-> area, dir |-> DirOf(area), name |-> name, content |-> content,
     category |-> "", tags |-> <<>>, confidence |-> NaN]

\* fs.writeFile / fs.copy: the file at that place is replaced
WriteFile(fs, f) == {g \in fs : ~(g.dir = f.dir /\ g.name = f.name)} \cup {f}

RECURSIVE WriteAll(_, _)
WriteAll(fs, list) ==
    IF list = <<>> THEN fs ELSE WriteAll(WriteFile(fs, list[1]), Tail(list))

\* createBackup: one copy per scanned file, under backup/<time>/<relative path>
BackupCopies(fs) ==
    {BlankFile("backup", ToString(k), fs[k].content) : k \in {j \in 1..Len(fs) : fs[j].readable}}

\* lines 84-88: the backup, when enabled; copying an unreadable file throws
CreateBackup ==
    /\ phase = "found"
    /\ IF options.backup
       THEN /\ outFiles' = outFiles \cup BackupCopies(files)
            /\ IF \A k \in 1..Len(files) : files[k].readable
               THEN /\ phase' = "scanned"
                    /\ UNCHANGED result
               ELSE /\ phase' = "failed"
                    /\ result' = FailedResult("copy failed")
       ELSE /\ phase' = "scanned"
            /\ UNCHANGED <<outFiles, result>>
    /\ UNCHANGED <<envVars, dedupVars, batchVars, summary, cli, parserVars, metaVars>>

(***************************************************************************)
(* batchAnalyze and analyzeIcon.                                           *)
(***************************************************************************)
\* maxRetries = 3
MaxRetries == 3
\* retryDelay = 1000 ms, in quarters of a millisecond
RetryDelayStart == 4000
\* Math.min(retryDelay * 1.5, 10000), in quarters of a millisecond
RetryDelayCap == 40000

\* replies the backend gives in a run: Scenario C's wrapped JSON, and prose
ReplySamples == {<<"prose", "{", "jcat", "jtags2", "jconf", "}">>, <<"prose">>}

\* the record batchAnalyze stores for a call that threw
ErrorRecord ==
    [category |-> "error", tags |-> <<>>, confidence |-> Rat(0, 1),
     reasoning |-> "Analysis failed"]

Min(a, b) == IF a < b THEN a ELSE b

\* icons.slice(i, i + batchSize), with i counted from 1
SliceOfWide(list, i, batchSize) == SubSeq(list, i, Min(i + batchSize, Len(list)))
SliceOf(list, i, batchSize) == SubSeq(list, i, Min(i + batchSize - 1, Len(list)))

AllSettled(cs) == \A k \in 1..Len(cs) : cs[k].st = "settled"

Settle(cs, k, record) == [cs EXCEPT ![k].st = "settled", ![k].out = <<record>>]

\* batchAnalyze, loop head and batch.map: the slice's promises are created;
\* the local engine delays call k by k * 200 ms, the cloud engine calls at once
SliceStart ==
    /\ phase = "classifying"
    /\ calls = <<>>
    /\ bi <= Len(uniqueIcons)
    /\ LET batch == SliceOf(uniqueIcons, bi, config.maxConcurrent)
       IN  calls' = [k \in 1..Len(batch) |->
                        [icon |-> batch[k],
                         st |-> IF config.provider = "ollama" THEN "stagger" ELSE "request",
                         attempt |-> 0,
                         wait |-> 0,
                         out |-> <<>>]]
    /\ UNCHANGED <<envVars, phase, dedupVars, backend, uniqueIcons, bi, results, retryDelay,
                   outVars, parserVars, metaVars>>

\* OllamaAnalysisEngine.batchAnalyze line 452-454: the start delay of call k
\* is over (timers fire in the order of their delays) and analyzeIcon begins
CallBegin(k) ==
    /\ phase = "classifying"
    /\ k \in 1..Len(calls)
    /\ calls[k].st = "stagger"
    /\ \A j \in 1..(k - 1) : calls[j].st # "stagger"
    /\ calls' = [calls EXCEPT ![k].st = "request"]
    /\ UNCHANGED <<envVars, phase, dedupVars, backend, uniqueIcons, bi, results, retryDelay,
                   outVars, parserVars, metaVars>>

\* OllamaAnalysisEngine.analyzeIconOnce returns: the reply has content and
\* parseAIResponse turns it into a record
CallReplyOllama(k) ==
    /\ phase = "classifying"
    /\ config.provider = "ollama"
    /\ k \in 1..Len(calls)
    /\ calls[k].st = "request"
    /\ backend = "any"
    /\ \E content \in ReplySamples :
          calls' = Settle(calls, k, parseAIResponseOllama(content))
    /\ UNCHANGED <<envVars, phase, dedupVars, backend, uniqueIcons, bi, results, retryDelay,
                   outVars, parserVars, metaVars>>

\* attempt < this.maxRetries - 1, attempts counted from 0
MayRetryAlways(attempt) == attempt < MaxRetries
MayRetry(attempt) == attempt < MaxRetries - 1

\* analyzeIcon, lines 51-73: analyzeIconOnce threw
CallErrorOllama(k) ==
    /\ phase = "classifying"
    /\ config.provider = "ollama"
    /\ k \in 1..Len(calls)
    /\ calls[k].st = "request"
    /\ \E error \in BackendErrors(backend) :
          IF error \in FatalErrors
          THEN calls' = Settle(calls, k, ErrorRecord)
          ELSE IF MayRetry(calls[k].attempt)
               THEN calls' = [calls EXCEPT ![k].st = "backoff", ![k].wait = retryDelay]
               ELSE calls' = Settle(calls, k, ErrorRecord)
    /\ UNCHANGED <<envVars, phase, dedupVars, backend, uniqueIcons, bi, results, retryDelay,
                   outVars, parserVars, metaVars>>

\* analyzeIcon, lines 69-73 and 48-50: the wait is over, the delay grows, next attempt
CallRetry(k) ==
    /\ phase = "classifying"
    /\ k \in 1..Len(calls)
    /\ calls[k].st = "backoff"
    /\ retryDelay' = Min((retryDelay * 3) \div 2, RetryDelayCap)
    /\ calls' = [calls EXCEPT ![k].st = "request", ![k].attempt = @ + 1]
    /\ UNCHANGED <<envVars, phase, dedupVars, backend, uniqueIcons, bi, results, outVars,
                   parserVars, metaVars>>

\* AIAnalysisEngine.analyzeIcon returns or throws on a reply with content
CallReplyOpenAI(k) ==
    /\ phase = "classifying"
    /\ config.provider = "openai"
    /\ k \in 1..Len(calls)
    /\ calls[k].st = "request"
    /\ backend = "any"
    /\ \E content \in ReplySamples :
          LET r == parseAIResponseOpenAI(content)
          IN  calls' = Settle(calls, k, IF IsThrew(r) THEN ErrorRecord ELSE r)
    /\ UNCHANGED <<envVars, phase, dedupVars, backend, uniqueIcons, bi, results, retryDelay,
                   outVars, parserVars, metaVars>>

\* AIAnalysisEngine.analyzeIcon throws: the request failed or the reply has no content
CallErrorOpenAI(k) ==
    /\ phase = "classifying"
    /\ config.provider = "openai"
    /\ k \in 1..Len(calls)
    /\ calls[k].st = "request"
    /\ calls' = Settle(calls, k, ErrorRecord)
    /\ UNCHANGED <<envVars, phase, dedupVars, backend, uniqueIcons, bi, results, retryDelay,
                   outVars, parserVars, metaVars>>

\* Map.set
MapSet(m, key, value) ==
    [x \in DOMAIN m \cup {key} |-> IF x = key THEN value ELSE m[x]]

RECURSIVE SetAllButErrors(_, _)
SetAllButErrors(m, cs) ==
    IF cs = <<>> THEN m
    ELSE SetAllButErrors(IF cs[1].out[1].category = "error" THEN m
                         ELSE MapSet(m, cs[1].icon.id, cs[1].out[1]), Tail(cs))

RECURSIVE SetAll(_, _)
\* batchResults.forEach(({ id, result }) => results.set(id, result))
SetAll(m, cs) ==
    IF cs = <<>> THEN m
    ELSE SetAll(MapSet(m, cs[1].icon.id, cs[1].out[1]), Tail(cs))

\* batchAnalyze: Promise.all(promises) resolved, the results are stored, i += batchSize
NextIndexStuck(i, batchSize) == i
\* the step of the loop over the slices: i += batchSize
NextIndex(i, batchSize) == i + batchSize

SliceJoin ==
    /\ phase = "classifying"
    /\ calls # <<>>
    /\ AllSettled(calls)
    /\ results' = SetAll(results, calls)
    /\ calls' = <<>>
    /\ bi' = NextIndex(bi, config.maxConcurrent)
    /\ UNCHANGED <<envVars, phase, dedupVars, backend, uniqueIcons, retryDelay, outVars,
                   parserVars, metaVars>>

BatchReturnEarly ==
    /\ phase = "classifying"
    /\ calls = <<>>
    /\ phase' = "classified"
    /\ UNCHANGED <<envVars, dedupVars, batchVars, outVars, parserVars, metaVars>>

\* batchAnalyze returns the results
BatchReturn ==
    /\ phase = "classifying"
    /\ calls = <<>>
    /\ bi > Len(uniqueIcons)
    /\ phase' = "classified"
    /\ UNCHANGED <<envVars, dedupVars, batchVars, outVars, parserVars, metaVars>>

\* Promise.race, lines 119-122, after the timer has won: the race is settled,
\* and the reply of its request, arriving later, resolves a promise that
\* nothing else awaits; the call is as it was
AfterRaceLastWins(call, record) == [call EXCEPT !.st = "settled", !.out = <<record>>]
AfterRace(call, record) == call

\* the abandoned request of a call that timed out returns with a reply (the
\* backend of the run answers no request in time, so every finished attempt
\* of a call was a timeout)
LateReply(k) ==
    /\ phase = "classifying"
    /\ config.provider = "ollama"
    /\ backend = "timeout"
    /\ k \in 1..Len(calls)
    /\ calls[k].attempt > 0 \/ calls[k].st \in {"backoff", "settled"}
    /\ calls[k].icon.id \notin late
    /\ \E content \in ReplySamples :
          calls' = [calls EXCEPT ![k] = AfterRace(calls[k], parseAIResponseOllama(content))]
    /\ late' = late \cup {calls[k].icon.id}
    /\ UNCHANGED <<files, given, options, config, first, phase, dedupVars, backend,
                   uniqueIcons, bi, results, retryDelay, outVars, parserVars, metaVars>>

(***************************************************************************)
(* processAndSaveResults, saveJsonSummary and the returned result.         *)
(***************************************************************************)
\* icon.filename.replace(/\.svg$/i, ".png")
PngName(filename) == IF filename = "a.svg" THEN "a.png" ELSE "b.png"

\* saveIconWithMetadata: the SVG with the embedded record, then savePngVersion
\* (the PNG directory is <outputDir>/png)
IconWrites(icon, analysis, area) ==
    <<[area |-> area, dir |-> DirOf(area), name |-> icon.filename, content |-> icon.content,
       category |-> analysis.category, tags |-> analysis.tags,
       confidence |-> analysis.confidence],
      BlankFile("png", PngName(icon.filename), icon.content)>>

\* the record written for a duplicate (lines 260-265)
DuplicateRecord(master) ==
    [category |-> "duplicate", tags |-> <<>>, confidence |-> Rat(1, 1),
     reasoning |-> <<"Duplicate of", master.filename>>]

UniqueEntry(icon, analysis) ==
    [filename |-> icon.filename, category |-> analysis.category, tags |-> analysis.tags,
     confidence |-> analysis.confidence, reasoning |-> analysis.reasoning,
     isDuplicate |-> FALSE]

DuplicateEntry(icon, master) ==
    [filename |-> icon.filename, category |-> "duplicate", tags |-> <<>>,
     confidence |-> Rat(1, 1), reasoning |-> <<"Duplicate of", master.filename>>,
     isDuplicate |-> TRUE, duplicateOf |-> master.filename]

RECURSIVE Flatten(_)
\* the lists of a list, one after the other
Flatten(list) == IF list = <<>> THEN <<>> ELSE list[1] \o Flatten(Tail(list))

\* lines 238-279: per group, the master when it has an analysis, then its duplicates
GroupEntries(groups, analysisResults) ==
    LET OfGroup(g) ==
            (IF g.master.id \in DOMAIN analysisResults
             THEN <<UniqueEntry(g.master, analysisResults[g.master.id])>> ELSE <<>>)
            \o [k \in 1..Len(g.duplicates) |-> DuplicateEntry(g.duplicates[k], g.master)]
    IN  Flatten([x \in 1..Len(groups) |-> OfGroup(groups[x])])

GroupWritesOneArea(groups, analysisResults) ==
    LET OfDuplicate(g) ==
            LET W(d) == IconWrites(d, DuplicateRecord(g.master), "icons")
            IN  Flatten([x \in 1..Len(g.duplicates) |-> W(g.duplicates[x])])
        OfGroup(g) ==
            (IF g.master.id \in DOMAIN analysisResults
             THEN IconWrites(g.master, analysisResults[g.master.id], "icons") ELSE <<>>)
            \o OfDuplicate(g)
    IN  Flatten([x \in 1..Len(groups) |-> OfGroup(groups[x])])
GroupWrites(groups, analysisResults) ==
    LET OfDuplicate(g) ==
            LET W(d) == IconWrites(d, DuplicateRecord(g.master), "duplicates")
            IN  Flatten([x \in 1..Len(g.duplicates) |-> W(g.duplicates[x])])
        OfGroup(g) ==
            (IF g.master.id \in DOMAIN analysisResults
             THEN IconWrites(g.master, analysisResults[g.master.id], "icons") ELSE <<>>)
            \o OfDuplicate(g)
    IN  Flatten([x \in 1..Len(groups) |-> OfGroup(groups[x])])

\* lines 282-296: every icon that has an analysis
RestEntries(list, analysisResults) ==
    LET OfIcon(icon) ==
            IF icon.id \in DOMAIN analysisResults
            THEN <<UniqueEntry(icon, analysisResults[icon.id])>> ELSE <<>>
    IN  Flatten([x \in 1..Len(list) |-> OfIcon(list[x])])

RestWrites(list, analysisResults) ==
    LET OfIcon(icon) ==
            IF icon.id \in DOMAIN analysisResults
            THEN IconWrites(icon, analysisResults[icon.id], "icons") ELSE <<>>
    IN  Flatten([x \in 1..Len(list) |-> OfIcon(list[x])])

\* processedCount: one per saved master and one per saved icon
ProcessedCount(list, analysisResults, groups) ==
    Len(SelectSeq(groups, LAMBDA g : g.master.id \in DOMAIN analysisResults))
    + Len(SelectSeq(list, LAMBDA icon : icon.id \in DOMAIN analysisResults))

AnalysisDataList(list, analysisResults, groups) ==
    GroupEntries(groups, analysisResults) \o RestEntries(list, analysisResults)

generateCategoryStatsAll(analysisDataList) ==
    LET Category(item) == IF item.category = "" THEN "uncategorized" ELSE item.category
    IN  [c \in {Category(analysisDataList[k]) : k \in 1..Len(analysisDataList)} |->
            Cardinality({k \in 1..Len(analysisDataList) : Category(analysisDataList[k]) = c})]
\* generateCategoryStats: counts over the entries that are not duplicates
generateCategoryStats(analysisDataList) ==
    LET counted == SelectSeq(analysisDataList, LAMBDA item : ~item.isDuplicate)
        Category(item) == IF item.category = "" THEN "uncategorized" ELSE item.category
    IN  [c \in {Category(counted[k]) : k \in 1..Len(counted)} |->
            Cardinality({k \in 1..Len(counted) : Category(counted[k]) = c})]

\* saveJsonSummary: the summary object
JsonSummary(analysisDataList) ==
    [totalIcons |-> Len(analysisDataList),
     uniqueIcons |-> Len(SelectSeq(analysisDataList, LAMBDA item : ~item.isDuplicate)),
     duplicateIcons |-> Len(SelectSeq(analysisDataList, LAMBDA item : item.isDuplicate)),
     categories |-> generateCategoryStats(analysisDataList),
     icons |-> analysisDataList]

SaveOrderSummaryFirst(groups, list, analysisResults) ==
    <<BlankFile("summary", "analysis-summary.json", "summary")>>
    \o GroupWrites(groups, analysisResults)
    \o RestWrites(list, analysisResults)
    \o <<BlankFile("report", "duplicate-report.txt", "report")>>
\* processAndSaveResults lines 237-302: the files it writes, in the order of
\* its awaits: the groups, the classified icons, saveReport, saveJsonSummary
SaveOrder(groups, list, analysisResults) ==
    GroupWrites(groups, analysisResults)
    \o RestWrites(list, analysisResults)
    \o <<BlankFile("report", "duplicate-report.txt", "report"),
         BlankFile("summary", "analysis-summary.json", "summary")>>

\* processDirectory lines 128-150: processAndSaveResults (embedded SVGs and
\* PNGs, the duplicate report, the JSON summary), then the result is returned
SaveAndReturn ==
    /\ phase = "classified"
    /\ LET analysisDataList == AnalysisDataList(icons, results, duplicates)
       IN  /\ outFiles' = WriteAll(outFiles, SaveOrder(duplicates, icons, results))
           /\ summary' = JsonSummary(analysisDataList)
           /\ result' = [totalIcons |-> Len(icons),
                         processedIcons |-> ProcessedCount(icons, results, duplicates),
                         duplicates |-> duplicates,
                         errors |-> <<>>]
    /\ phase' = "done"
    /\ UNCHANGED <<envVars, dedupVars, batchVars, cli, parserVars, metaVars>>

\* processAndSaveResults when one of its writes throws (FileUtils.writeFile
\* has no catch): the writes before it stay, the later ones are not made, and
\* the catch block of processDirectory (lines 151-160) returns the failure
SaveFails ==
    /\ phase = "classified"
    /\ LET order == SaveOrder(duplicates, icons, results)
       IN  \E n \in 0..(Len(order) - 1) :
               outFiles' = WriteAll(outFiles, SubSeq(order, 1, n))
    /\ result' = FailedResult("write failed")
    /\ phase' = "failed"
    /\ UNCHANGED <<envVars, dedupVars, batchVars, summary, cli, parserVars, metaVars>>

(***************************************************************************)
(* The process command of the CLI.                                         *)
(***************************************************************************)
\* cli/index.ts lines 42-84: the provider is configured; the cloud provider
\* without an API key prints how to set it and exits with status 1,
\* otherwise the processor is constructed and processDirectory is called
CliStart ==
    /\ phase = "cli"
    /\ IF config.provider # "ollama" /\ ~config.apiKey
       THEN /\ cli' = [exit |-> 1, printed |-> {"set OPENAI_API_KEY"}]
            /\ phase' = "exited"
       ELSE /\ phase' = "start"
            /\ UNCHANGED cli
    /\ UNCHANGED <<envVars, dedupVars, batchVars, outFiles, summary, result, parserVars,
                   metaVars>>

\* cli/index.ts lines 86-133: processDirectory returned a result (it catches
\* its own errors): "Processing completed!", the counts, the errors of the
\* result, the output location; the action returns and the process ends with
\* status 0
CliReport ==
    /\ phase \in {"done", "failed"}
    /\ cli' = [exit |-> 0,
               printed |-> {"Processing completed!", "Results"}
                           \cup (IF result.errors # <<>> THEN {"Errors encountered"} ELSE {})
                           \cup (IF ~options.dryRun THEN {"saved to"} ELSE {})]
    /\ phase' = "exited"
    /\ UNCHANGED <<envVars, dedupVars, batchVars, outFiles, summary, result, parserVars,
                   metaVars>>

\* The process is interrupted (SIGINT) while batchAnalyze runs. The program
\* installs no signal handler and batchAnalyze and analyzeIcon test no
\* cancellation flag, so the runtime ends the process where it stands: the
\* calls in flight are abandoned and nothing more is printed or written.
Interrupt ==
    /\ phase = "classifying"
    /\ phase' = "killed"
    /\ cli' = [exit |-> 130, printed |-> {}]
    /\ UNCHANGED <<envVars, dedupVars, batchVars, outFiles, summary, result, parserVars,
                   metaVars>>

(***************************************************************************)
(* A second run on the same input directory.                               *)
(***************************************************************************)
\* The input directory is ./assets; the output directories of the model are
\* the default ./processed beside it, ./assets/out inside it, and ./assets
\* itself.
OutputDirs == {"./processed", "./assets/out", "./assets"}

\* path.basename(path.resolve(outputDir)), as a directory name in pieces
OutputDirName(outputDir) ==
    CASE outputDir = "./assets/out" -> <<"out">>
      [] outputDir = "./assets" -> <<"assets">>
      [] OTHER -> <<"processed">>

\* processDirectory lines 59-66: the directory names the scan leaves out
excludeDirs(opts) == {<<"backup">>, <<"duplicates">>, OutputDirName(opts.outputDir)}

\* a written file lies under the input directory
UnderInputDir(f, opts) == f.dir[1] = <<"inputDir">> \/ opts.outputDir # "./processed"

\* the directories between the input directory and a written file under it
RelativeDir(f, opts) ==
    LET below == Tail(f.dir)
    IN  IF f.dir[1] # <<"inputDir">> /\ opts.outputDir = "./assets/out"
        THEN <<<<"out">>>> \o below
        ELSE below

\* the content of a written file: a copy keeps the content, an SVG saved by
\* saveIconWithMetadata has the metadata comments embedded
ContentOnDisk(f) ==
    IF f.area = "backup" THEN f.content
    ELSE IF f.content = "c1" THEN "c1+metadata" ELSE "c2+metadata"

SetToSeq(S) ==
    CHOOSE q \in [1..Cardinality(S) -> S] : \A a, b \in 1..Cardinality(S) : a # b => q[a] # q[b]

\* FileUtils.scanDirectory over the input files and what was written: the
\* files named *.svg that lie under the directory in no excluded directory
scanDirectory(inputFiles, written, excluded, opts) ==
    LET Scanned(f) ==
            /\ f.area = "backup" \/ f.name \in Names
            /\ UnderInputDir(f, opts)
            /\ \A k \in 1..Len(RelativeDir(f, opts)) : RelativeDir(f, opts)[k] \notin excluded
        found == SetToSeq({[filename |-> f.name,
                            content |-> ContentOnDisk(f),
                            readable |-> TRUE] : f \in {g \in written : Scanned(g)}})
    IN  inputFiles \o found

\* processDirectory is called again on the same directory with the same
\* options, after a run that returned
Rerun ==
    /\ phase = "done"
    /\ IsNone(first)
    /\ first' = [files |-> files,
                 ids |-> {icons[k].id : k \in 1..Len(icons)},
                 duplicates |-> duplicates]
    /\ files' = scanDirectory(files, outFiles, excludeDirs(options), options)
    /\ phase' = "start"
    /\ icons' = <<>>
    /\ exactGroups' = <<>>
    /\ ni' = 0
    /\ nj' = 0
    /\ processed' = {}
    /\ similarIcons' = <<>>
    /\ nearGroups' = <<>>
    /\ duplicates' = <<>>
    /\ uniqueIcons' = <<>>
    /\ bi' = 0
    /\ calls' = <<>>
    /\ results' = <<>>
    /\ retryDelay' = RetryDelayStart
    /\ backend' = "any"
    /\ summary' = None
    /\ result' = None
    /\ UNCHANGED <<given, options, config, late, outFiles, cli, parserVars, metaVars>>

(***************************************************************************)
(* The parsers, applied to a reply.                                        *)
(***************************************************************************)
ParseReplyOllama ==
    /\ phase = "parsing"
    /\ IsNone(parsed)
    /\ parsed' = [by |-> "ollama", out |-> parseAIResponseOllama(reply)]
    /\ UNCHANGED <<envVars, phase, dedupVars, batchVars, outVars, reply, metaVars>>

ParseReplyOpenAI ==
    /\ phase = "parsing"
    /\ IsNone(parsed)
    /\ parsed' = [by |-> "openai", out |-> parseAIResponseOpenAI(reply)]
    /\ UNCHANGED <<envVars, phase, dedupVars, batchVars, outVars, reply, metaVars>>

(***************************************************************************)
(* SVGUtils: the record embedded in an SVG as comments, and read back.     *)
(* A text is a sequence of pieces: "<svg>" an opening svg tag, "nl" a line *)
(* break, "header" the comment <!-- Icon Analysis Metadata -->, "cat:"     *)
(* "tags:" "conf:" "proc:" "ver:" the openings <!-- Category: and so on,   *)
(* "-->" the closing of a comment (with its leading space), "," a comma    *)
(* (with the space join adds), digits and "." the characters of a number,  *)
(* any other piece a run of characters free of all of these.               *)
(***************************************************************************)
DigitChar(k) ==
    CASE k = 0 -> "0" [] k = 1 -> "1" [] k = 2 -> "2" [] k = 3 -> "3" [] k = 4 -> "4"
      [] k = 5 -> "5" [] k = 6 -> "6" [] k = 7 -> "7" [] k = 8 -> "8" [] OTHER -> "9"

\* Number.prototype.toFixed(2) of a quotient in [0, 10): rounded to hundredths
toFixed2(x) ==
    LET h == (200 * x[1] + x[2]) \div (2 * x[2])
    IN  <<DigitChar(h \div 100), ".", DigitChar((h \div 10) % 10), DigitChar(h % 10)>>

\* Date.prototype.toISOString
toISOString(t) == IF t = "t1" THEN "iso1" ELSE "iso2"

\* new Date(text): the instant of an ISO text; a text with characters after
\* the ISO text is Invalid Date, or the instant when the parser tolerates them
NewDate(text, lenient) ==
    LET Instant(piece) == IF piece = "iso1" THEN "t1" ELSE "t2"
    IN  IF text # <<>> /\ text[1] \in {"iso1", "iso2"} /\ (Len(text) = 1 \/ lenient)
        THEN Instant(text[1])
        ELSE "Invalid Date"

RECURSIVE JoinTags(_)
\* metadata.tags.join(", ")
JoinTags(tags) ==
    IF tags = <<>> THEN <<>>
    ELSE IF Len(tags) = 1 THEN <<tags[1]>>
    ELSE <<tags[1], ",">> \o JoinTags(Tail(tags))

\* metadataComments, joined without a separator
metadataComments(m) ==
    <<"header">>
    \o <<"cat:", m.category, "-->">>
    \o <<"tags:">> \o JoinTags(m.tags) \o <<"-->">>
    \o <<"conf:">> \o toFixed2(m.confidence) \o <<"-->">>
    \o <<"proc:", toISOString(m.processedAt), "-->">>
    \o <<"ver:", m.version, "-->">>

\* SVGUtils.embedMetadata
embedMetadata(content, m) ==
    LET tags == {p \in 1..Len(content) : content[p] = "<svg>"}
    IN  IF tags # {}
        THEN LET insertPosition == CHOOSE p \in tags : \A q \in tags : p <= q
             IN  SubSeq(content, 1, insertPosition) \o <<"nl">> \o metadataComments(m)
                 \o <<"nl">> \o SubSeq(content, insertPosition + 1, Len(content))
        ELSE metadataComments(m) \o <<"nl">> \o content

\* content.match(/<opening>([^\n]+) -->/)[1]: from the first opening that has
\* a closing after it on its line, the text up to the last closing of that
\* line; <<>> when there is no match
CommentCapture(content, opening) ==
    LET Closings(p) ==
            {q \in (p + 2)..Len(content) :
                /\ content[q] = "-->"
                /\ \A k \in (p + 1)..q : content[k] # "nl"}
        starts == {p \in 1..Len(content) : content[p] = opening /\ Closings(p) # {}}
    IN  IF starts = {} THEN <<>>
        ELSE LET p == CHOOSE x \in starts : \A y \in starts : x <= y
                 q == CHOOSE x \in Closings(p) : \A y \in Closings(p) : y <= x
             IN  SubSeq(content, p + 1, q - 1)

RECURSIVE SplitCommas(_, _)
\* text.split(","), each part trimmed: cur is the part being read
SplitCommas(text, cur) ==
    IF text = <<>> THEN <<cur>>
    ELSE IF text[1] = "," THEN <<cur>> \o SplitCommas(Tail(text), <<>>)
    ELSE SplitCommas(Tail(text), Append(cur, text[1]))

RECURSIVE NumberPrefix(_)
\* the leading digits and dots of a text
NumberPrefix(text) ==
    IF text = <<>> \/ text[1] \notin {"0", "1", "2", "3", "4", "5", "6", "7", "8", "9", "."}
    THEN <<>>
    ELSE <<text[1]>> \o NumberPrefix(Tail(text))

\* SVGUtils.extractMetadata: a field without a match is absent (<<>>); the
\* category, each tag and the version are the captured texts
extractMetadata(content, lenient) ==
    LET cat == CommentCapture(content, "cat:")
        tgs == CommentCapture(content, "tags:")
        cnf == CommentCapture(content, "conf:")
        prc == CommentCapture(content, "proc:")
        ver == CommentCapture(content, "ver:")
    IN  [category |-> cat,
         tags |-> IF tgs = <<>> THEN <<>> ELSE SplitCommas(tgs, <<>>),
         confidence |-> IF cnf = <<>> THEN <<>> ELSE parseFloat(NumberPrefix(cnf)),
         processedAt |-> IF prc = <<>> THEN <<>> ELSE NewDate(prc, lenient),
         version |-> ver]

\* embedMetadata(content, metadata)
EmbedMetadata ==
    /\ phase = "embedding"
    /\ svgText' = embedMetadata(svgText, metadata)
    /\ phase' = "embedded"
    /\ UNCHANGED <<envVars, dedupVars, batchVars, outVars, parserVars, metadata, extracted>>

\* extractMetadata(content)
ExtractMetadata ==
    /\ phase = "embedded"
    /\ \E lenient \in BOOLEAN : extracted' = extractMetadata(svgText, lenient)
    /\ phase' = "extracted"
    /\ UNCHANGED <<envVars, dedupVars, batchVars, outVars, parserVars, svgText, metadata>>

(***************************************************************************)
(* Initial states.                                                         *)
(***************************************************************************)
\* option records as a caller gives them: a key may be absent
GivenThresholds ==
    {[dryRun |-> FALSE]} \cup
    {[dryRun |-> FALSE, similarityThreshold |-> t] : t \in {Rat(9, 10), Rat(101, 100)}}

RunInitVars ==
    /\ icons = <<>>
    /\ exactGroups = <<>>
    /\ ni = 0
    /\ nj = 0
    /\ processed = {}
    /\ similarIcons = <<>>
    /\ nearGroups = <<>>
    /\ duplicates = <<>>
    /\ uniqueIcons = <<>>
    /\ bi = 0
    /\ calls = <<>>
    /\ results = <<>>
    /\ retryDelay = RetryDelayStart
    /\ backend = "any"
    /\ outFiles = {}
    /\ summary = None
    /\ result = None
    /\ cli = None

NoEarlierRun == first = None

NoLateReply == late = {}

NoMetadata ==
    /\ svgText = <<>>
    /\ metadata = None
    /\ extracted = None

\* A whole run of processDirectory, from a constructed IconProcessor.
Init ==
    /\ files \in SeqsUpTo([filename : Names, content : {"c1", "c2"}, readable : BOOLEAN],
                          MaxFiles)
    /\ given \in {d @@ b @@ t : d \in {[dryRun |-> FALSE], [dryRun |-> TRUE]},
                                b \in {<<>>, [backup |-> FALSE]},
                                t \in {<<>>, [similarityThreshold |-> Rat(101, 100)]}}
    /\ options = ProcessorOptions(given)
    /\ config \in {c \in [provider : {"ollama", "openai", "other"}, maxConcurrent : 1..MaxWidth,
                          model : {DefaultModel}, apiKey : BOOLEAN] :
                        c.provider = "ollama" => ~c.apiKey}
    /\ phase = "start"
    /\ RunInitVars
    /\ NoMetadata
    /\ reply = <<>>
    /\ parsed = None
    /\ NoEarlierRun
    /\ NoLateReply

Next ==
    \/ CheckService
    \/ Scan
    \/ CreateBackup
    \/ LoadIcons
    \/ FindExact
    \/ NearOuter
    \/ NearInner
    \/ NearClose
    \/ NearReturn
    \/ StartBatch
    \/ SliceStart
    \/ \E k \in 1..MaxWidth :
          \/ CallBegin(k)
          \/ CallReplyOllama(k)
          \/ CallErrorOllama(k)
          \/ CallRetry(k)
          \/ CallReplyOpenAI(k)
          \/ CallErrorOpenAI(k)
    \/ SliceJoin
    \/ BatchReturn
    \/ SaveAndReturn

Spec == Init /\ [][Next]_vars

\* A duplicate-detection run: the directory is scanned and non-empty, no
\* backup was asked for, the icons are about to be loaded.
InitDedup ==
    /\ files \in SeqsUpTo([filename : Names, content : Contents, readable : {TRUE}],
                          MaxDedupFiles) \ {<<>>}
    /\ given \in {[backup |-> FALSE] @@ g : g \in GivenThresholds}
    /\ options = ProcessorOptions(given)
    /\ config = [provider |-> "ollama", maxConcurrent |-> 1, model |-> DefaultModel,
                 apiKey |-> FALSE]
    /\ phase = "scanned"
    /\ RunInitVars
    /\ NoMetadata
    /\ reply = <<>>
    /\ parsed = None
    /\ NoEarlierRun
    /\ NoLateReply

NextDedup ==
    \/ LoadIcons
    \/ FindExact
    \/ NearOuter
    \/ NearInner
    \/ NearClose
    \/ NearReturn
    \/ StartBatch

SpecDedup == InitDedup /\ [][NextDedup]_vars

\* pieces of text a reply is made of
Chunks ==
    {<<"{", "}">>, <<"{", "jcat", "}">>, <<"{", "jtags2", "}">>, <<"{", "jconf", "}">>,
     <<"{", "jcat", "jtags2", "jconf", "}">>, <<"{", "jcat", "jtags6", "jconfhi", "}">>,
     <<"{", "jtags0", "}">>, <<"{", "prose", "}">>, <<"{">>, <<"}">>,
     <<"prose">>, <<"kwcat">>, <<"kwicon">>, <<"pcat">>, <<"pconf09">>, <<"pconf85">>,
     <<"pconfdot">>, <<"ptags">>, <<"ptags6">>, <<"nl">>, <<"fence">>}

\* A reply of at most MaxChunks pieces is handed to a parser.
InitParser ==
    /\ reply \in {Flatten(c) : c \in SeqsUpTo(Chunks, MaxChunks)}
    /\ parsed = None
    /\ files = <<>>
    /\ given = <<>>
    /\ options = ProcessorOptions(given)
    /\ config = [provider |-> "ollama", maxConcurrent |-> 1, model |-> DefaultModel,
                 apiKey |-> FALSE]
    /\ phase = "parsing"
    /\ RunInitVars
    /\ NoMetadata
    /\ NoEarlierRun
    /\ NoLateReply

NextParser == ParseReplyOllama \/ ParseReplyOpenAI

SpecParser == InitParser /\ [][NextParser]_vars

\* records and contents handed to embedMetadata
MetadataRecords ==
    [category : {"navigation", "action"},
     tags : SeqsUpTo({"home", "arrow"}, MaxTags),
     confidence : {Rat(9, 10), Rat(1, 2), Rat(857, 1000)},
     processedAt : {"t1", "t2"},
     version : {"1.0"}]

SvgContents == {<<"<svg>", "body">>, <<"body", "nl">>, <<>>}

\* A record is embedded in a content, and the result is read back.
InitMetadata ==
    /\ svgText \in SvgContents
    /\ metadata \in MetadataRecords
    /\ extracted = None
    /\ reply = <<>>
    /\ parsed = None
    /\ files = <<>>
    /\ given = <<>>
    /\ options = ProcessorOptions(given)
    /\ config = [provider |-> "ollama", maxConcurrent |-> 1, model |-> DefaultModel,
                 apiKey |-> FALSE]
    /\ phase = "embedding"
    /\ RunInitVars
    /\ NoEarlierRun
    /\ NoLateReply

NextMetadata == EmbedMetadata \/ ExtractMetadata

SpecMetadata == InitMetadata /\ [][NextMetadata]_vars

\* model identifiers a configuration can name
Models == {DefaultModel, <<"minicpm-v", "-", "latest">>, <<"llava", ":", "7b">>}

\* records batchAnalyze can hold for an item
ResultSamples == {parseAIResponseOllama(c) : c \in ReplySamples} \cup {ErrorRecord}

\* The state of processDirectory when batchAnalyze has returned, in a run
\* without backup whose threshold no pair of different digests reaches (so
\* the groups are the exact groups): the results are about to be saved.
InitSave ==
    /\ files \in SeqsUpTo([filename : Names, content : {"c1", "c2"}, readable : {TRUE}],
                          MaxFiles) \ {<<>>}
    /\ given = [backup |-> FALSE, similarityThreshold |-> Rat(101, 100)]
    /\ options = ProcessorOptions(given)
    /\ config \in [provider : {"ollama"}, maxConcurrent : {1}, model : Models,
                    apiKey : {FALSE}]
    /\ phase = "classified"
    /\ icons = loadIcons(files, Len(files))
    /\ exactGroups = findExactDuplicates(icons)
    /\ ni = Len(icons) + 1
    /\ nj = 0
    /\ processed = {}
    /\ similarIcons = <<>>
    /\ nearGroups = <<>>
    /\ duplicates = exactGroups
    /\ uniqueIcons = getUniqueIcons(icons, duplicates)
    /\ bi = Len(uniqueIcons) + 1
    /\ calls = <<>>
    /\ results \in [{uniqueIcons[k].id : k \in 1..Len(uniqueIcons)} -> ResultSamples]
    /\ retryDelay = RetryDelayStart
    /\ backend = "any"
    /\ outFiles = {}
    /\ summary = None
    /\ result = None
    /\ cli = None
    /\ NoMetadata
    /\ reply = <<>>
    /\ parsed = None
    /\ NoEarlierRun
    /\ NoLateReply

NextSave == SaveAndReturn

SpecSave == InitSave /\ [][NextSave]_vars

\* The same states, where a write of processAndSaveResults may throw.
NextWrite == SaveAndReturn \/ SaveFails

SpecWrite == InitSave /\ [][NextWrite]_vars

\* The process command, run on a small directory: the options commander
\* gives (backup on unless --no-backup, threshold 0.8, dryRun as asked,
\* --concurrent 1 or its default 3).
InitCli ==
    /\ files \in SeqsUpTo([filename : Names, content : {"c1", "c4"}, readable : {TRUE}],
                          MaxFiles)
    /\ given \in [backup : BOOLEAN, dryRun : BOOLEAN, similarityThreshold : {Rat(8, 10)},
                   maxConcurrent : {1, 3}]
    /\ options = ProcessorOptions(given)
    /\ config \in [provider : {"ollama", "openai"}, maxConcurrent : {MaxWidth},
                   model : {DefaultModel}, apiKey : BOOLEAN]
    /\ phase = "cli"
    /\ RunInitVars
    /\ NoMetadata
    /\ reply = <<>>
    /\ parsed = None
    /\ NoEarlierRun
    /\ NoLateReply

NextCli == CliStart \/ Next \/ CliReport

SpecCli == InitCli /\ [][NextCli]_vars

\* Two runs with dryRun = true on a directory of readable files.
InitRerun ==
    /\ files \in SeqsUpTo([filename : Names, content : {"c1", "c2"}, readable : {TRUE}],
                          MaxFiles)
    /\ given \in [dryRun : {TRUE}, backup : BOOLEAN, outputDir : OutputDirs]
    /\ options = ProcessorOptions(given)
    /\ config \in [provider : {"ollama", "openai"}, maxConcurrent : {1},
                   model : {DefaultModel}, apiKey : {TRUE}]
    /\ phase = "start"
    /\ RunInitVars
    /\ NoMetadata
    /\ NoEarlierRun
    /\ NoLateReply
    /\ reply = <<>>
    /\ parsed = None

NextRerun == Next \/ Rerun

SpecRerun == InitRerun /\ [][NextRerun]_vars

\* The process command, interrupted or not.
NextInterrupt == NextCli \/ Interrupt

SpecInterrupt == InitCli /\ [][NextInterrupt]_vars

\* A run in which replies may arrive after their timeout.
InitLate ==
    /\ files \in SeqsUpTo([filename : Names, content : {"c1", "c4"}, readable : {TRUE}],
                          MaxFiles)
    /\ given = [backup |-> FALSE]
    /\ options = ProcessorOptions(given)
    /\ config \in {c \in [provider : {"ollama", "openai"}, maxConcurrent : 1..MaxWidth,
                          model : {DefaultModel}, apiKey : BOOLEAN] :
                        c.provider = "ollama" => ~c.apiKey}
    /\ phase = "start"
    /\ RunInitVars
    /\ NoMetadata
    /\ NoEarlierRun
    /\ NoLateReply
    /\ reply = <<>>
    /\ parsed = None

NextLate == Next \/ \E k \in 1..MaxWidth : LateReply(k)

SpecLate == InitLate /\ [][NextLate]_vars

\* A run over files whose contents have digests with the same first
\* IdPrefixLen characters, with the threshold of the options or one above 1.
InitIds ==
    /\ files \in SeqsUpTo([filename : Names, content : {"c1", "c5"}, readable : {TRUE}],
                          MaxFiles)
    /\ given \in {[backup |-> FALSE],
                  [backup |-> FALSE, similarityThreshold |-> Rat(101, 100)]}
    /\ options = ProcessorOptions(given)
    /\ config \in {c \in [provider : {"ollama", "openai"}, maxConcurrent : 1..MaxWidth,
                          model : {DefaultModel}, apiKey : BOOLEAN] :
                        c.provider = "ollama" => ~c.apiKey}
    /\ phase = "start"
    /\ RunInitVars
    /\ NoMetadata
    /\ NoEarlierRun
    /\ NoLateReply
    /\ reply = <<>>
    /\ parsed = None

SpecIds == InitIds /\ [][Next]_vars

\* batchAnalyze alone, of either engine, entered with the unique icons of a
\* loaded directory; --concurrent is 0 or its default.  Every step of the
\* batch is the continuation of a timer or of a backend call that returns,
\* fails or times out, so a step that can be taken is taken (weak fairness).
InitLive ==
    /\ files \in SeqsUpTo([filename : Names, content : {"c1", "c4"}, readable : {TRUE}],
                          MaxFiles)
    /\ given \in [backup : {FALSE}, maxConcurrent : {0, 3}]
    /\ options = ProcessorOptions(given)
    /\ config \in {c \in [provider : {"ollama", "openai"}, maxConcurrent : 1..MaxWidth,
                          model : {DefaultModel}, apiKey : {FALSE}] : TRUE}
    /\ phase = "deduped"
    /\ icons = loadIcons(files, Len(files))
    /\ exactGroups = findExactDuplicates(icons)
    /\ ni = Len(icons) + 1
    /\ nj = 0
    /\ processed = {}
    /\ similarIcons = <<>>
    /\ nearGroups = <<>>
    /\ duplicates = exactGroups
    /\ uniqueIcons = <<>>
    /\ bi = 0
    /\ calls = <<>>
    /\ results = <<>>
    /\ retryDelay = RetryDelayStart
    /\ backend = "any"
    /\ outFiles = {}
    /\ summary = None
    /\ result = None
    /\ cli = None
    /\ NoMetadata
    /\ reply = <<>>
    /\ parsed = None
    /\ NoEarlierRun
    /\ NoLateReply

NextLive ==
    \/ StartBatch
    \/ SliceStart
    \/ \E k \in 1..MaxWidth :
          \/ CallBegin(k)
          \/ CallReplyOllama(k)
          \/ CallErrorOllama(k)
          \/ CallRetry(k)
          \/ CallReplyOpenAI(k)
          \/ CallErrorOpenAI(k)
    \/ SliceJoin
    \/ BatchReturn

SpecLive == InitLive /\ [][NextLive]_vars /\ WF_vars(NextLive)

(***************************************************************************)
(* Properties.                                                             *)
(***************************************************************************)
\* an item is identified by its place in the directory
IsMember(icon, groups) ==
    \E g \in 1..Len(groups) : \E k \in 1..Len(groups[g].duplicates) :
        groups[g].duplicates[k].path = icon.path
InList(icon, list) == \E k \in 1..Len(list) : list[k].path = icon.path
MemberCount(groups) ==
    Cardinality({<<g, k>> \in (1..Len(groups)) \X (1..Len(icons)) :
                    k <= Len(groups[g].duplicates)})

\* C1: after findDuplicates and getUniqueIcons every loaded item is either a
\* member (duplicate) of some group or in the unique list handed to
\* batchAnalyze, never both and never neither, and every group master is in
\* the unique list.
C1_Partition ==
    phase = "classifying" =>
        /\ \A k \in 1..Len(icons) :
              IsMember(icons[k], duplicates) # InList(icons[k], uniqueIcons)
        /\ \A g \in 1..Len(duplicates) : InList(duplicates[g].master, uniqueIcons)

\* C2: in a run that reaches the summary every loaded item is counted once:
\* totalIcons is the number of loaded items, uniqueIcons the number of
\* classified items, duplicateIcons the number of group members, and
\* processedIcons is the number of classified items, at most totalIcons.
C2_CountedOnce ==
    (phase = "done" /\ ~IsNone(summary)) =>
        /\ summary.totalIcons = Len(icons)
        /\ Len(summary.icons) = Len(icons)
        /\ summary.uniqueIcons = Len(uniqueIcons)
        /\ summary.duplicateIcons = MemberCount(duplicates)
        /\ result.processedIcons = Len(uniqueIcons)
        /\ result.processedIcons <= result.totalIcons

IsErrorRecord(r) == r.category = "error" /\ r.tags = <<>> /\ RatEQ(r.confidence, Rat(0, 1))

\* C3: a failed classification does not abort the batch: a call that fails
\* settles with category "error", no tags and confidence 0; when batchAnalyze
\* has returned every item handed to it has its record; a run that entered
\* batchAnalyze does not end failed, and its summary lists every item with
\* the category of its record.
C3_FailureContained ==
    /\ phase = "classifying" =>
          \A k \in 1..Len(calls) :
              (calls[k].st = "settled" /\ calls[k].out[1].category = "error")
                  => IsErrorRecord(calls[k].out[1])
    /\ phase \in {"classified", "done"} =>
          \A k \in 1..Len(uniqueIcons) :
              /\ uniqueIcons[k].id \in DOMAIN results
              /\ results[uniqueIcons[k].id].category = "error"
                    => IsErrorRecord(results[uniqueIcons[k].id])
    /\ phase = "failed" => bi = 0
    /\ (phase = "done" /\ bi > 0) =>
          /\ ~IsNone(summary)
          /\ \A k \in 1..Len(uniqueIcons) :
                \E e \in 1..Len(summary.icons) :
                    /\ summary.icons[e].filename = uniqueIcons[k].filename
                    /\ summary.icons[e].category = results[uniqueIcons[k].id].category

\* C3 witness: a finished run in which one item failed and another did not
C3_Witness ==
    /\ phase = "done"
    /\ ~IsNone(summary)
    /\ \E i, j \in DOMAIN results :
          /\ results[i].category = "error"
          /\ results[j].category # "error"
    /\ \E e \in 1..Len(summary.icons) : summary.icons[e].category = "error"

ActiveCalls == {k \in 1..Len(calls) : calls[k].st \in {"request", "backoff"}}

\* C4: the calls in flight are the items of one slice, at most W of them, in
\* input order, starting at the loop index; every item before the slice has
\* its record and no item from the slice on has one, so no call of a later
\* slice starts before the earlier slice has settled; at most W calls are active.
C4_Slices ==
    phase = "classifying" =>
        /\ Len(calls) <= config.maxConcurrent
        /\ Cardinality(ActiveCalls) <= config.maxConcurrent
        /\ \A k \in 1..Len(calls) :
              /\ bi + k - 1 <= Len(uniqueIcons)
              /\ calls[k].icon = uniqueIcons[bi + k - 1]
        /\ \A j \in 1..Len(uniqueIcons) :
              (uniqueIcons[j].id \in DOMAIN results) <=> (j < bi)
        /\ (bi - 1) % config.maxConcurrent = 0

\* C4 witness: a call of a later slice is active, the earlier slice has its records
C4_Witness ==
    /\ phase = "classifying"
    /\ bi > 1
    /\ ActiveCalls # {}
    /\ DOMAIN results # {}

\* C5: with dryRun the run writes no file.
C5_DryRunWritesNothing == options.dryRun => outFiles = {}

GroupPaths(group) ==
    {group.master.path} \cup {group.duplicates[k].path : k \in 1..Len(group.duplicates)}

ExactGroupsOf(h) ==
    {g \in 1..Len(duplicates) :
        RatEQ(duplicates[g].similarity, RatOne) /\ duplicates[g].master.hash = h}

\* C6: for a digest that two or more items share, findDuplicates returns
\* exactly one group of similarity 1.0, it holds all the items of that digest
\* and recommends remove; for a digest of a single item there is no such group.
C6_ExactGroups ==
    phase = "deduped" =>
        \A i \in 1..Len(icons) :
            LET h == icons[i].hash
                S == {icons[k].path : k \in {j \in 1..Len(icons) : icons[j].hash = h}}
            IN  IF Cardinality(S) >= 2
                THEN /\ Cardinality(ExactGroupsOf(h)) = 1
                     /\ \A g \in ExactGroupsOf(h) :
                           /\ GroupPaths(duplicates[g]) = S
                           /\ Len(duplicates[g].duplicates) = Cardinality(S) - 1
                           /\ duplicates[g].recommendation = "remove"
                ELSE ExactGroupsOf(h) = {}

\* C6 witness: a digest shared by several items and a digest of a single item
C6_Witness ==
    /\ phase = "deduped"
    /\ \E g \in 1..Len(duplicates) :
          /\ duplicates[g].recommendation = "remove"
          /\ Len(duplicates[g].duplicates) >= 1
    /\ \E i \in 1..Len(icons) : \A j \in 1..Len(icons) :
          icons[j].hash = icons[i].hash => j = i

Roles(icon, groups) ==
    {<<g, 0>> : g \in {x \in 1..Len(groups) : groups[x].master.path = icon.path}}
    \cup {<<g, k>> \in (1..Len(groups)) \X (1..Len(icons)) :
              k <= Len(groups[g].duplicates) /\ groups[g].duplicates[k].path = icon.path}

\* C7: in the result of findDuplicates no item appears in more than one
\* group, as master or as duplicate.
C7_OneGroupPerItem ==
    phase = "deduped" =>
        \A i \in 1..Len(icons) : Cardinality(Roles(icons[i], duplicates)) <= 1

\* the configured threshold, 0.8 when none is configured
ConfiguredThreshold ==
    IF "similarityThreshold" \in DOMAIN given THEN given.similarityThreshold ELSE Rat(8, 10)

AttachedIds ==
    {similarIcons[k].id : k \in 1..Len(similarIcons)} \cup DuplicateIds(nearGroups)

InUnitInterval(x) == x[2] # 0 /\ RatGE(x, Rat(0, 1)) /\ RatGE(Rat(1, 1), x)

\* C9: for every reply the local provider's parser returns a record with a
\* non-empty category, at most 5 tags and a confidence within [0,1].
C9_ParserTotal ==
    (~IsNone(parsed) /\ parsed.by = "ollama") =>
        /\ ~IsThrew(parsed.out)
        /\ parsed.out.category # ""
        /\ Len(parsed.out.tags) <= 5
        /\ InUnitInterval(parsed.out.confidence)

\* C10: for both providers a reply with content is parsed to a record, never
\* to a failure, also when it is not valid JSON.
C10_NoParseFailure ==
    (~IsNone(parsed) /\ reply # <<>>) => ~IsThrew(parsed.out)

\* C11: for a content and a record whose tags hold no line break,
\* extractMetadata(embedMetadata(content, record)) gives back the record's
\* category, tags, confidence, processed time and version.
C11_RoundTrip ==
    phase = "extracted" =>
        /\ extracted.category = <<metadata.category>>
        /\ extracted.tags = [k \in 1..Len(metadata.tags) |-> <<metadata.tags[k]>>]
        /\ extracted.confidence # <<>>
        /\ extracted.confidence # NaN
        /\ RatEQ(extracted.confidence, metadata.confidence)
        /\ extracted.processedAt = metadata.processedAt
        /\ extracted.version = <<metadata.version>>

\* C12: when every call of the batch is refused by the service or finds no
\* model, the local provider makes one attempt per item and never waits: no
\* call is ever in a retry wait or past its first attempt, the retry delay
\* is never raised, and each call settles with the error record.
C12_FatalNotRetried ==
    (config.provider = "ollama" /\ backend \in {"refused", "notfound"}) =>
        /\ retryDelay = RetryDelayStart
        /\ \A k \in 1..Len(calls) :
              /\ calls[k].attempt = 0
              /\ calls[k].st # "backoff"
              /\ calls[k].wait = 0
              /\ calls[k].st = "settled" => calls[k].out = <<ErrorRecord>>

\* C12 witness: a call that found no model has settled
C12_Witness ==
    /\ phase = "classifying"
    /\ config.provider = "ollama"
    /\ backend = "notfound"
    /\ \E k \in 1..Len(calls) : calls[k].st = "settled"

C14_EmptyReplyFallsBack ==
    (phase = "classifying" /\ backend = "empty") =>
        \A k \in 1..Len(calls) :
            /\ calls[k].st # "backoff"
            /\ calls[k].attempt = 0
            /\ calls[k].st = "settled" => calls[k].out[1].category # "error"

\* C15: every file the run writes to the output directory (embedded SVGs,
\* PNG versions, duplicate report, summary) lies under a subdirectory of the
\* output directory that belongs to the run's model identifier alone: no
\* other model identifier is given the same subdirectory.
C15_ModelPartition ==
    phase = "done" =>
        \A f \in outFiles :
            f.area # "backup" =>
                /\ Len(f.dir) >= 2
                /\ f.dir[1] = <<options.outputDir>>
                /\ f.dir[2] = modelName(config.model)
                /\ \A other \in Models \ {config.model} : modelName(other) # f.dir[2]

RECURSIVE SumOver(_, _)
SumOver(f, S) ==
    IF S = {} THEN 0 ELSE LET x == CHOOSE y \in S : TRUE IN f[x] + SumOver(f, S \ {x})

\* C16: the category counts of the summary count exactly the entries that
\* are not duplicates, and no group member has a classification record to
\* be counted with; in a run without groups and with n classified items the
\* counts sum to n, uniqueIcons is n and duplicateIcons is 0.
C16_CategoryCounts ==
    (phase = "done" /\ ~IsNone(summary)) =>
        LET total == SumOver(summary.categories, DOMAIN summary.categories)
        IN  /\ total = Len(SelectSeq(summary.icons, LAMBDA item : ~item.isDuplicate))
            /\ \A k \in 1..Len(icons) :
                  IsMember(icons[k], duplicates) => icons[k].id \notin DOMAIN results
            /\ \A c \in DOMAIN summary.categories :
                  summary.categories[c] =
                      Cardinality({k \in 1..Len(summary.icons) :
                                      /\ ~summary.icons[k].isDuplicate
                                      /\ summary.icons[k].category = c})
            /\ duplicates = <<>> =>
                  /\ total = Len(uniqueIcons)
                  /\ summary.uniqueIcons = Len(uniqueIcons)
                  /\ summary.duplicateIcons = 0

\* C16 witness: a summary with a duplicate entry and a counted category
C16_Witness ==
    /\ phase = "done"
    /\ ~IsNone(summary)
    /\ summary.duplicateIcons >= 1
    /\ DOMAIN summary.categories # {}

ProviderUnusable ==
    \/ config.provider = "openai" /\ ~config.apiKey
    \/ /\ ~IsNone(result)
       /\ Len(result.errors) = 2
       /\ result.errors[2] \in {"down", "nomodel", "nokey"}

\* C17: when the provider is unreachable or misconfigured (local service
\* down, model not found, cloud API key absent) the process command ends with
\* a non-zero exit status and never prints that processing completed.
C17_UnusableProviderFails ==
    (phase = "exited" /\ ProviderUnusable) =>
        /\ cli.exit # 0
        /\ "Processing completed!" \notin cli.printed

\* C18: when the scan finds no SVG file, no backup copy or output is
\* written and no call is made to the classification backend,
\* processDirectory returns the no-work result (totalIcons 0, processedIcons
\* 0, no groups), and the process command then ends with status 0.
C18_NoWork ==
    Len(files) = 0 =>
        /\ outFiles = {}
        /\ bi = 0
        /\ calls = <<>>
        /\ DOMAIN results = {}
        /\ IsNone(summary)
        /\ phase \in {"cli", "start", "checked", "failed", "done", "exited"}
        /\ phase = "done" =>
              /\ result.totalIcons = 0
              /\ result.processedIcons = 0
              /\ result.duplicates = <<>>
              /\ result.errors = <<"No SVG files found">>
        /\ (phase = "exited" /\ ~IsNone(result) /\ Len(result.errors) = 1) => cli.exit = 0

\* C18 witness: the command has ended after a scan that found nothing
C18_Witness ==
    /\ phase = "exited"
    /\ Len(files) = 0
    /\ ~IsNone(result)
    /\ result.errors = <<"No SVG files found">>
    /\ cli.exit = 0

Readable(fs) == {k \in 1..Len(fs) : fs[k].readable}

\* C19: when a scanned file cannot be read, the run does not fail on it, with
\* the backup on or off: the file is skipped and every readable file is
\* loaded.
C19_UnreadableSkipped ==
    (Readable(files) # 1..Len(files)) =>
        /\ phase = "failed" => result.errors[2] # "copy failed"
        /\ phase \in {"loaded", "done"} => Len(icons) = Cardinality(Readable(files))

\* C20: two runs with dryRun = true on an unchanged input directory have the
\* same item ids and the same duplicate groups, and the second run scans
\* nothing the first run wrote (backup copies, output files).
C20_SecondRunSame ==
    (~IsNone(first) /\ options.dryRun) =>
        /\ files = first.files
        /\ phase = "done" =>
              /\ {icons[k].id : k \in 1..Len(icons)} = first.ids
              /\ duplicates = first.duplicates

\* the place of a file name in the scan: the first scanned file of that name
ScanRank(filename) ==
    CHOOSE k \in 1..Len(files) :
        /\ files[k].filename = filename
        /\ \A j \in 1..(k - 1) : files[j].filename # filename

\* C21: the entries of the summary's per-item list are in the order in which
\* the items were scanned, whatever the order in which the concurrent
\* classification calls completed.
C21_SummaryInScanOrder ==
    ~IsNone(summary) =>
        \A i, j \in 1..Len(summary.icons) :
            i < j => ScanRank(summary.icons[i].filename) <= ScanRank(summary.icons[j].filename)

\* C22: when the run is cancelled during classification, the calls in flight
\* have finished (or timed out) and the partial results have been reported
\* by the time the run ends; no slice is dispatched after the signal.
C22_CancelDrains ==
    phase = "killed" =>
        /\ AllSettled(calls)
        /\ ~IsNone(result)

\* the phases of processDirectory, in the order of its statements
PhaseRank(p) ==
    CASE p = "start" -> 1
      [] p = "checked" -> 2
      [] p = "found" -> 3
      [] p = "scanned" -> 4
      [] p = "loaded" -> 5
      [] p = "near" -> 6
      [] p = "deduped" -> 7
      [] p = "classifying" -> 8
      [] p = "classified" -> 9
      [] OTHER -> 10

C24_OptionIsWidth ==
    Len(calls) <= options.maxConcurrent

\* the number of the retry that a call's recorded wait precedes (0: no wait yet)
WaitIndex(c) == IF c.st = "backoff" THEN c.attempt + 1 ELSE c.attempt

\* C25: the concurrent calls of a slice do not change each other's retry
\* waits: two calls of the slice that are at the same retry have waited the
\* same time.
C25_CallsIndependent ==
    \A k, j \in 1..Len(calls) :
        (WaitIndex(calls[k]) > 0 /\ WaitIndex(calls[k]) = WaitIndex(calls[j]))
            => calls[k].wait = calls[j].wait

RECURSIVE BackoffSchedule(_)
\* 1000 ms times 1.5 per further retry, at most 10000 ms (quarters of a ms)
BackoffSchedule(n) ==
    IF n = 1 THEN RetryDelayStart
    ELSE Min((BackoffSchedule(n - 1) * 3) \div 2, RetryDelayCap)

\* C27: the wait before the n-th retry of an item is 1000 ms * 1.5^(n-1),
\* at most 10000 ms, whatever retries other items have made.
C27_BackoffSchedule ==
    \A k \in 1..Len(calls) :
        WaitIndex(calls[k]) > 0 => calls[k].wait = BackoffSchedule(WaitIndex(calls[k]))

\* the names of the items of a group are pairwise distinct
DistinctNames(group) ==
    Cardinality({group.master.filename}
                \cup {group.duplicates[k].filename : k \in 1..Len(group.duplicates)})
        = Len(group.duplicates) + 1

C28_ScoresInUnitInterval ==
    /\ \A i, j \in 1..Len(icons) :
          InUnitInterval(calculateSimilarity(icons[i].hash, icons[j].hash))
    /\ \A g \in 1..Len(exactGroups) : InUnitInterval(exactGroups[g].similarity)
    /\ \A g \in 1..Len(nearGroups) : InUnitInterval(nearGroups[g].similarity)
    /\ \A g \in 1..Len(duplicates) : InUnitInterval(duplicates[g].similarity)
    /\ ~RatGE(Rat(1, 1), ConfiguredThreshold) =>
          /\ similarIcons = <<>>
          /\ nearGroups = <<>>
          /\ phase = "deduped" => duplicates = findExactDuplicates(icons)

\* C28 witness: threshold 1.01, an exact group, and two items of different
\* digests that the default threshold would have grouped
C28_Witness ==
    /\ phase = "deduped"
    /\ ~RatGE(Rat(1, 1), ConfiguredThreshold)
    /\ duplicates # <<>>
    /\ \E i, j \in 1..Len(icons) :
          /\ icons[i].hash # icons[j].hash
          /\ RatGE(calculateSimilarity(icons[i].hash, icons[j].hash), Rat(9, 10))

\* the similarities between the primary of a group and its members
MemberSimilarities(group) ==
    {calculateSimilarity(group.master.hash, group.duplicates[k].hash) :
        k \in 1..Len(group.duplicates)}

\* C29: the score of a near group is the least similarity between its
\* primary and a member, it is at least the configured threshold, and the
\* recommendation is keep when the score is >= 0.9 and review otherwise,
\* never remove.
C29_NearRecommendation ==
    \A g \in 1..Len(nearGroups) :
        LET group == nearGroups[g]
        IN  /\ \E x \in MemberSimilarities(group) : RatEQ(x, group.similarity)
            /\ \A x \in MemberSimilarities(group) : RatGE(x, group.similarity)
            /\ RatGE(group.similarity, ConfiguredThreshold)
            /\ group.recommendation =
                   (IF RatGE(group.similarity, Rat(9, 10)) THEN "keep" ELSE "review")

\* C29 witness: a near group of score 0.8 with a member at 0.9 listed first
C29_Witness ==
    /\ phase = "deduped"
    /\ \E g \in 1..Len(nearGroups) :
          /\ nearGroups[g].recommendation = "review"
          /\ Len(nearGroups[g].duplicates) = 2
          /\ RatEQ(calculateSimilarity(nearGroups[g].master.hash,
                                       nearGroups[g].duplicates[1].hash), Rat(9, 10))

\* the items attached as followers so far, by their place in the scan
FollowerPaths ==
    UNION {{nearGroups[g].duplicates[k].path : k \in 1..Len(nearGroups[g].duplicates)} :
              g \in 1..Len(nearGroups)}
    \cup {similarIcons[k].path : k \in 1..Len(similarIcons)}

\* C30: the groups of the near pass are pairwise disjoint: an item attached
\* as a follower is not examined as a leader afterwards and is neither
\* primary nor member of another near group, and no primary of a near group
\* is a member of a near group.
C30_NearGroupsDisjoint ==
    /\ \A g, h \in 1..Len(nearGroups) :
          g # h => GroupPaths(nearGroups[g]) \cap GroupPaths(nearGroups[h]) = {}
    /\ \A g \in 1..Len(nearGroups) :
          /\ nearGroups[g].master.path \notin FollowerPaths
          /\ Cardinality(GroupPaths(nearGroups[g])) = Len(nearGroups[g].duplicates) + 1
    /\ (phase = "near" /\ nj > 0) =>
          icons[ni].path \notin (FollowerPaths \ {similarIcons[k].path : k \in 1..Len(similarIcons)})

\* C30 witness: the pass is over, it made a group, and an item scanned after
\* the group's primary and before the end was attached to it
C30_Witness ==
    /\ phase = "deduped"
    /\ \E g \in 1..Len(nearGroups) :
          \E k \in 1..Len(nearGroups[g].duplicates) :
              /\ nearGroups[g].duplicates[k].path < Len(icons)
              /\ nearGroups[g].master.path < nearGroups[g].duplicates[k].path

\* The requests a call of the local provider has issued that the backend has
\* not answered: ollama.chat is called once per attempt, and when the timer
\* wins the race the request is not aborted. With a backend that answers no
\* request in time these are all the requests of the call.
UnansweredRequests(c) == IF c.st = "stagger" THEN 0 ELSE c.attempt + 1

RECURSIVE SumUnanswered(_)
SumUnanswered(cs) ==
    IF cs = <<>> THEN 0 ELSE UnansweredRequests(cs[1]) + SumUnanswered(Tail(cs))

\* C31: the requests outstanding at the backend are never more than the
\* window width, also when a call that timed out is retried before the
\* request it abandoned has returned.
C31_OutstandingWithinWidth ==
    (config.provider = "ollama" /\ backend = "timeout") =>
        SumUnanswered(calls) <= config.maxConcurrent

SavedWrites == GroupWrites(duplicates, results) \o RestWrites(icons, results)

WrittenTo(writes, area, icon) ==
    {k \in 1..Len(writes) : /\ writes[k].area = area
                            /\ writes[k].name = icon.filename
                            /\ writes[k].content = icon.content}

\* C33: every member of a duplicate group is written to the duplicates area
\* only, with the record (duplicate, no tags, confidence 1.0), and every
\* classified unique item is written to the icons area only, with its record.
C33_AreasPartition ==
    (phase = "done" /\ ~IsNone(summary)) =>
        LET writes == SavedWrites
        IN  /\ \A g \in 1..Len(duplicates) : \A m \in 1..Len(duplicates[g].duplicates) :
                  LET member == duplicates[g].duplicates[m]
                      there == WrittenTo(writes, "duplicates", member)
                  IN  /\ there # {}
                      /\ WrittenTo(writes, "icons", member) = {}
                      /\ \A k \in there :
                            /\ writes[k].category = "duplicate"
                            /\ writes[k].tags = <<>>
                            /\ RatEQ(writes[k].confidence, RatOne)
            /\ \A u \in 1..Len(uniqueIcons) :
                  uniqueIcons[u].id \in DOMAIN results =>
                      LET there == WrittenTo(writes, "icons", uniqueIcons[u])
                      IN  /\ there # {}
                          /\ WrittenTo(writes, "duplicates", uniqueIcons[u]) = {}
                          /\ \A k \in there :
                                writes[k].category = results[uniqueIcons[u].id].category

\* C33 witness: a finished run with a group member and a classified unique item
C33_Witness ==
    /\ phase = "done"
    /\ ~IsNone(summary)
    /\ duplicates # <<>>
    /\ \E u \in 1..Len(uniqueIcons) :
          /\ uniqueIcons[u].id \in DOMAIN results
          /\ results[uniqueIcons[u].id].category # "error"

SummaryWritten == \E f \in outFiles : f.area = "summary"

\* C34: the summary is written at most once per run, after every embedded
\* file and the duplicate report; when an earlier write fails, no summary
\* file is written.
C34_SummaryLast ==
    LET order == SaveOrder(duplicates, icons, results)
    IN  /\ Cardinality({k \in 1..Len(order) : order[k].area = "summary"}) = 1
        /\ phase = "failed" => ~SummaryWritten
        /\ SummaryWritten =>
              /\ phase = "done"
              /\ \A k \in 1..Len(order) :
                    \E f \in outFiles : f.dir = order[k].dir /\ f.name = order[k].name

\* C34 witness: the write of the summary itself failed, after the report
C34_Witness ==
    /\ phase = "failed"
    /\ \E f \in outFiles : f.area = "report"
    /\ \E f \in outFiles : f.area = "icons"

ServiceUnavailable ==
    /\ phase = "failed"
    /\ result.errors[2] \in {"down", "nomodel", "nokey", "unsupported"}

C36_GenericTagsLowConfidence ==
    (~IsNone(parsed) /\ parsed.by = "ollama"
        /\ parsed.out = extractStructuredData(reply)
        /\ parsed.out.tags = GenericTags) =>
            /\ parsed.out.confidence # NaN
            /\ RatGE(Rat(3, 10), parsed.out.confidence)

\* the JSON text parseAIResponse hands to JSON.parse, <<>> when there is none
JsonPart(content) ==
    LET cleaned == CleanContent(content)
        m == LastMatch(cleaned, 1, <<>>)
    IN  IF m = <<>> THEN <<>> ELSE SubSeq(cleaned, m[1], m[2])

\* C37: when the JSON part of a reply parses but lacks category or lacks
\* tags, the record is the one of the keyword/regex fallback over the raw
\* text, not the structured record with a defaulted field.
C37_MissingFieldFallsBack ==
    (~IsNone(parsed) /\ parsed.by = "ollama"
        /\ JsonPart(reply) # <<>> /\ JsonParses(JsonPart(reply))
        /\ (LastOf(JsonPart(reply), {"jcat"}) = "absent"
              \/ LastOf(JsonPart(reply), {"jtags0", "jtags2", "jtags6"}) = "absent")) =>
            parsed.out = extractStructuredData(reply)

\* C38: no two items dispatched to batchAnalyze in one run have the same id,
\* so no two calls of a slice and no two writes of results target one key.
C38_DispatchedIdsDistinct ==
    /\ \A i, j \in 1..Len(uniqueIcons) :
          i # j => uniqueIcons[i].id # uniqueIcons[j].id
    /\ \A i, j \in 1..Len(calls) :
          i # j => calls[i].icon.id # calls[j].icon.id

\* C39: batchAnalyze returns for every item list and every width, and the
\* map it returns has exactly the ids of the items it was given as its keys.
C39_BatchTerminates ==
    /\ <>(phase = "classified")
    /\ [](phase = "classified" =>
            DOMAIN results = {uniqueIcons[k].id : k \in 1..Len(uniqueIcons)})

\* C39 witness: a batch of more than one slice has returned
C39_Witness ==
    /\ phase = "classified"
    /\ Len(uniqueIcons) > config.maxConcurrent
    /\ \E id \in DOMAIN results : results[id].category = "error"
    /\ \E id \in DOMAIN results : results[id].category # "error"

====
